---- MODULE Spec2Model ----
(***************************************************************************)
(* Model of the swarm platform's decision layer.                           *)
(*                                                                         *)
(*   Spec          server/services/ai.ts: AIService.getAgentDecision with  *)
(*                 its decision cache, the oracle call as a suspension     *)
(*                 point, and the three ways the call can end.             *)
(*   SpecFallback  AIService.getBasicSwarmBehavior as a pure function of   *)
(*                 the request context and two Math.random() draws.        *)
(*   SpecParse     AIService.parseDecision as a pure function of the       *)
(*                 oracle's content.                                       *)
(*   SpecIntegrate the force model and the integration of one tick of      *)
(*                 useSwarm as a pure function of the agent list, the      *)
(*                 config and the environment features.                    *)
(*   SpecTick      the client hook useSwarm.updatePositions: the sampling  *)
(*                 gate, the eligible set, the decision requests and the   *)
(*                 commit.                                                 *)
(*   SpecTickLive  SpecTick, where every request that is out settles.      *)
(*   SpecForce     SpecIntegrate on crowds: agents of any role in each     *)
(*                 other's range, some of them at one position.            *)
(*   SpecConfig    POST /api/config, the render that picks the stored row  *)
(*                 up, and the ticks that integrate with it.               *)
(*   SpecStorage   server/storage.ts: getConfig and updateConfig behind    *)
(*                 GET and POST /api/config, every database call a         *)
(*                 suspension point.                                       *)
(*   SpecRoutes    registerRoutes: the config, environment and decision    *)
(*                 routes, each handler in one step.                       *)
(*   SpecPrompt    the interactions AIService.buildPrompt puts into the    *)
(*                 prompt as a pure function of the memory.                *)
(*                                                                         *)
(* Coordinates and forces are fixed-point numbers in tenths (Unit).        *)
(*                                                                         *)
(* JavaScript objects are records whose DOMAIN is the set of keys that     *)
(* hold a value; a key that is missing or undefined is not in the DOMAIN.  *)
(***************************************************************************)
EXTENDS Integers, Sequences, FiniteSets, Bags, TLC

VARIABLES
    now,            \* Date.now(), in ms
    decisionCache,  \* AIService.decisionCache: agent id -> [decision, timestamp]
    calls,          \* the getAgentDecision calls that went to the oracle, in order
    ev,             \* the last step taken: what it was and what it returned
    fbCtx,          \* SpecFallback: the context handed to getBasicSwarmBehavior
    fbOut,          \* SpecFallback: what getBasicSwarmBehavior returned
    pdIn,           \* SpecParse: the content handed to parseDecision
    pdOut,          \* SpecParse: what parseDecision returned
    igIn,           \* SpecIntegrate: the agent list, config and features of one tick
    igOut,          \* SpecIntegrate: the forces, displacements and newAgents of that tick
    bpIn,           \* SpecPrompt: context.memory.interactions handed to buildPrompt
    bpOut,          \* SpecPrompt: recentInteractions of buildPrompt
    agents,         \* client: query data of /api/agents, the committed world state
    config,         \* client: query data of /api/config
    loops,          \* client: what the running animate loops' closures hold
    lastDecisionTime, \* client: the ref lastDecisionTime.current
    ticks,          \* client: sampling ticks suspended at their Promise.all
    sampleTimes,    \* client: when the last two sampling ticks started, -1 for never
    configRows,     \* storage: the rows of the table swarm_config
    featureRows,    \* storage: the rows of the table environment_features
    dbCalls,        \* storage: the bag of getConfig and updateConfig calls between
                    \* their select and their write
    lastUpdate      \* storage: the values of the updateConfig that completed last

vars == <<now, decisionCache, calls, ev, fbCtx, fbOut, pdIn, pdOut, igIn, igOut,
          bpIn, bpOut,
          agents, config, loops, lastDecisionTime, ticks, sampleTimes,
          configRows, featureRows, dbCalls, lastUpdate>>

serverVars == <<now, decisionCache, calls, ev>>
pureVars == <<fbCtx, fbOut, pdIn, pdOut, igIn, igOut, bpIn, bpOut>>
clientVars == <<agents, config, loops, lastDecisionTime, ticks, sampleTimes>>
storageVars == <<configRows, featureRows, dbCalls, lastUpdate>>

----------------------------------------------------------------------------
(* Bounds of the model *)

\* the last instant of the server's clock
MaxTime == 5001
\* agents in the swarm, and ids the decision service is asked about
NumAgents == 2
\* oracle calls made in one run; calls served from the cache are not counted
MaxCalls == 2
\* the last instant of the client's clock
MaxTickTime == 10000
\* animate loops started in one run, the first one included; none of them ends
MaxLoops == 3
\* sampling ticks suspended at Promise.all at once
MaxTicks == 2
\* getConfig and updateConfig calls between their select and their write at once
MaxDbCalls == 2
\* rows of environment_features, the resources placed at the start included
MaxFeatures == 3
\* interactions in an agent's memory
MaxLog == 6

(* Program constants *)

CacheTTL == 5000
ArenaWidth == 800
ArenaHeight == 600
CenterX == 400
CenterY == 300
NearDistance == 50
JitterSpan == 200
JitterOffset == 100
AvoidStep == 50
DefaultPriority == 5
RandScale == 1000
DecisionGate == 5000
BoundaryMargin == 50
ObstacleMargin == 50
\* the upper end of the weight sliders
WeightMax == 100
\* the interactions buildPrompt keeps
MemoryLimit == 5

----------------------------------------------------------------------------
(* JavaScript object helpers *)

Has(o, k) == k \in DOMAIN o

\* { ...base, ...over }
Spread(base, over) ==
    [k \in DOMAIN base \cup DOMAIN over |->
        IF k \in DOMAIN over THEN over[k] ELSE base[k]]

\* base without key k
Without(base, k) == [j \in DOMAIN base \ {k} |-> base[j]]

AgentIds == 1..NumAgents

\* The instants the clock visits: every multiple of the cache TTL and 1 ms after it,
\* so that entries aged 1, 4999, 5000 and 5001 ms all occur.
Instants ==
    {t \in {k * CacheTTL + r : k \in 0..(MaxTime \div CacheTTL), r \in {0, 1}} :
        t <= MaxTime}

\* Math.random() in [0, 1), in units of 1 / RandScale
RandomDraws == {0, 999}

KnownActions ==
    {"move_towards", "hold", "explore", "avoid", "align", "lead", "follow", "continue"}

----------------------------------------------------------------------------
(* AIService.parseDecision *)

\* completion.choices[0].message.content, as the oracle may send it: null (or the
\* empty string), text JSON.parse rejects, the JSON literal null, or a JSON value
\* with some of the keys action, reasoning, target, priority
ContentNull == [kind |-> "null"]
ContentInvalid == [kind |-> "invalid"]
ContentJsonNull == [kind |-> "jsonnull"]
ContentMove ==
    [kind |-> "json", action |-> "move_towards", reasoning |-> "go",
     target |-> [x |-> 10, y |-> 10], priority |-> 8]
ContentUnknownAction ==
    [kind |-> "json", action |-> "dance", reasoning |-> "fun", priority |-> 0]

\* the answers the oracle of Spec gives
OracleContents == {ContentNull, ContentMove, ContentUnknownAction}

\* parsed.<key> || fallback, for a string-valued key
OrString(parsed, key, fallback) ==
    IF Has(parsed, key) /\ parsed[key] # "" THEN parsed[key] ELSE fallback

\* parsed.<key> || fallback, for a number-valued key
OrNumber(parsed, key, fallback) ==
    IF Has(parsed, key) /\ parsed[key] # 0 THEN parsed[key] ELSE fallback

parseDecision(decisionStr) ==
    IF decisionStr.kind = "null"
    THEN [action |-> "continue", reasoning |-> "No decision received"]
    ELSE IF decisionStr.kind \in {"invalid", "jsonnull"}
    THEN [action |-> "continue", reasoning |-> "Failed to parse decision"]
    ELSE LET parsed == decisionStr
             core == [action |-> OrString(parsed, "action", "continue"),
                      reasoning |-> OrString(parsed, "reasoning", "No reasoning provided"),
                      priority |-> OrNumber(parsed, "priority", DefaultPriority)]
         IN  IF Has(parsed, "target")
             THEN Spread(core, [target |-> parsed.target])
             ELSE core

----------------------------------------------------------------------------
(* AIService.getBasicSwarmBehavior *)

\* cos and sin of an angle given in degrees, a multiple of 90
CosDeg(d) == CASE d % 360 = 0 -> 1 [] d % 360 = 180 -> -1 [] OTHER -> 0
SinDeg(d) == CASE d % 360 = 90 -> 1 [] d % 360 = 270 -> -1 [] OTHER -> 0

BoundaryValues(bd) == {bd.top, bd.right, bd.bottom, bd.left}

\* Object.values(boundaryDistance).some(d => d < 50)
nearBoundary(context) ==
    \E d \in BoundaryValues(context.sensors.boundaryDistance) : d < NearDistance

\* context.sensors.nearbyObstacles[0] exists and is closer than 50
firstObstacleNear(context) ==
    /\ Len(context.sensors.nearbyObstacles) > 0
    /\ context.sensors.nearbyObstacles[1].distance < NearDistance

\* context.neighbors.find(n => n.role === "leader"): the index, 0 when none
findLeader(neighbors) ==
    IF \E i \in 1..Len(neighbors) : neighbors[i].role = "leader"
    THEN CHOOSE i \in 1..Len(neighbors) :
            /\ neighbors[i].role = "leader"
            /\ \A j \in 1..(i - 1) : neighbors[j].role # "leader"
    ELSE 0

getBasicSwarmBehavior(context, r1, r2) ==
    IF nearBoundary(context)
    THEN [action |-> "avoid", priority |-> 9, reasoning |-> "Moving away from boundary",
          target |-> [x |-> CenterX + ((r1 * JitterSpan) \div RandScale - JitterOffset),
                      y |-> CenterY + ((r2 * JitterSpan) \div RandScale - JitterOffset)]]
    ELSE IF firstObstacleNear(context)
    THEN LET nearestObstacle == context.sensors.nearbyObstacles[1]
         IN  [action |-> "avoid", priority |-> 8, reasoning |-> "Avoiding obstacle",
              target |-> [x |-> context.position.x
                                 + CosDeg(nearestObstacle.direction + 180) * AvoidStep,
                          y |-> context.position.y
                                 + SinDeg(nearestObstacle.direction + 180) * AvoidStep]]
    ELSE IF context.role = "leader"
    THEN [action |-> "explore", priority |-> 7,
          target |-> [x |-> (r1 * ArenaWidth) \div RandScale,
                      y |-> (r2 * ArenaHeight) \div RandScale]]
    ELSE IF findLeader(context.neighbors) # 0
    THEN LET nearestLeader == context.neighbors[findLeader(context.neighbors)]
         IN  [action |-> "follow", priority |-> 8,
              target |-> [x |-> nearestLeader.x, y |-> nearestLeader.y]]
    ELSE [action |-> "align", priority |-> 5]

----------------------------------------------------------------------------
(* Request contexts *)

FarBoundary == [top |-> 300, right |-> 400, bottom |-> 300, left |-> 400]
NearTop == [top |-> 10, right |-> 400, bottom |-> 590, left |-> 400]
AtMargin == [top |-> 50, right |-> 400, bottom |-> 550, left |-> 400]
NearLeft == [top |-> 300, right |-> 751, bottom |-> 300, left |-> 49]

PositionOf(bd) == [x |-> bd.left, y |-> bd.top]

ObstacleAt(i, dist, dir) ==
    [id |-> i, type |-> "obstacle", distance |-> dist, direction |-> dir]

ObstacleLists ==
    {<<>>,
     <<ObstacleAt(1, 30, 0)>>,
     <<ObstacleAt(1, 80, 90)>>,
     <<ObstacleAt(1, 50, 180)>>,
     <<ObstacleAt(1, 80, 90), ObstacleAt(2, 30, 270)>>,
     <<ObstacleAt(1, 30, 270), ObstacleAt(2, 80, 90)>>}

NeighborAt(i, role, x, y) == [id |-> i, role |-> role, x |-> x, y |-> y]

NeighborLists ==
    {<<>>,
     <<NeighborAt(7, "follower", 100, 100)>>,
     <<NeighborAt(8, "leader", 200, 250)>>,
     <<NeighborAt(7, "follower", 100, 100), NeighborAt(8, "leader", 200, 250),
       NeighborAt(9, "leader", 600, 500)>>}

MakeContext(role, bd, obstacles, neighbors) ==
    [role |-> role, position |-> PositionOf(bd), neighbors |-> neighbors,
     sensors |-> [nearbyObstacles |-> obstacles, boundaryDistance |-> bd]]

\* every context SpecFallback draws from
FallbackContexts ==
    {MakeContext(role, bd, obs, nb) :
        role \in {"leader", "follower"},
        bd \in {FarBoundary, NearTop, AtMargin, NearLeft},
        obs \in ObstacleLists,
        nb \in NeighborLists}

\* the contexts the callers of Spec send
CallContexts ==
    {MakeContext("leader", NearTop, <<>>, <<>>),
     MakeContext("follower", FarBoundary, <<ObstacleAt(1, 80, 90), ObstacleAt(2, 30, 270)>>,
                 <<NeighborAt(8, "leader", 200, 250)>>)}

----------------------------------------------------------------------------
(* AIService.getAgentDecision *)

\* a call before it reaches the oracle, and after it returned
Idle == [pc |-> "idle"]
Done == [pc |-> "done"]

HasEntry(cache, id) == id \in DOMAIN cache

\* a variant: the store replaces the map by one that holds the new entry only
CacheSetAlone(cache, id, entry) == [k \in {id} |-> entry]

\* this.decisionCache.set(id, entry)
CacheSet(cache, id, entry) ==
    [k \in DOMAIN cache \cup {id} |-> IF k = id THEN entry ELSE cache[k]]

\* a variant: an entry aged exactly the TTL still counts as fresh
CacheFreshInclusive(cache, id, n) ==
    HasEntry(cache, id) /\ (n - cache[id].timestamp) <= CacheTTL

\* cachedDecision && (now - cachedDecision.timestamp) < 5000
CacheFresh(cache, id, n) ==
    HasEntry(cache, id) /\ (n - cache[id].timestamp) < CacheTTL

FreeSlots == {c \in 1..MaxCalls : calls[c].pc = "idle"}

\* Date.now() moves on
Advance(t) ==
    /\ t \in Instants
    /\ t > now
    /\ now' = t
    /\ ev' = [type |-> "time"]
    /\ UNCHANGED <<decisionCache, calls>>

\* getAgentDecision up to its first await: the cache lookup, and on a miss the
\* request to the oracle
GetAgentDecisionStart(id, context) ==
    IF CacheFresh(decisionCache, id, now)
    THEN /\ ev' = [type |-> "hit", id |-> id,
                   result |-> Spread(decisionCache[id].decision, [reused |-> TRUE])]
         /\ UNCHANGED <<now, decisionCache, calls>>
    ELSE /\ FreeSlots # {}
         /\ LET c == CHOOSE s \in FreeSlots : \A o \in FreeSlots : s <= o
            IN  calls' = [calls EXCEPT ![c] =
                    [pc |-> "oracle", id |-> id, context |-> context, now |-> now]]
         /\ ev' = [type |-> "miss", id |-> id]
         /\ UNCHANGED <<now, decisionCache>>

\* a variant: the entry is stamped with the time of the store
OracleSuccessStampsStore(c, content) ==
    /\ calls[c].pc = "oracle"
    /\ LET call == calls[c]
           decision == parseDecision(content)
       IN  /\ decisionCache' =
                CacheSet(decisionCache, call.id,
                         [decision |-> decision, timestamp |-> now])
           /\ ev' = [type |-> "success", id |-> call.id,
                     content |-> content,
                     result |-> Spread(decision, [timestamp |-> now])]
    /\ calls' = [calls EXCEPT ![c] = Done]
    /\ UNCHANGED now

\* the oracle answered: parse, cache, return
OracleSuccess(c, content) ==
    /\ calls[c].pc = "oracle"
    /\ LET call == calls[c]
           decision == parseDecision(content)
       IN  /\ decisionCache' =
                CacheSet(decisionCache, call.id,
                         [decision |-> decision, timestamp |-> call.now])
           /\ ev' = [type |-> "success", id |-> call.id,
                     content |-> content,
                     result |-> Spread(decision, [timestamp |-> now])]
    /\ calls' = [calls EXCEPT ![c] = Done]
    /\ UNCHANGED now

\* the oracle call threw with code insufficient_quota or status 429
OracleRateLimited(c, r1, r2) ==
    /\ calls[c].pc = "oracle"
    /\ LET call == calls[c]
           basicBehavior == getBasicSwarmBehavior(call.context, r1, r2)
       IN  ev' = [type |-> "ratelimit", id |-> call.id,
                  result |-> Spread(basicBehavior,
                      [reasoning |-> "Using basic swarm behavior due to API limitations",
                       timestamp |-> now])]
    /\ calls' = [calls EXCEPT ![c] = Done]
    /\ UNCHANGED <<now, decisionCache>>

\* a variant: the terminal fallback is cached like a decision
OracleErrorCaches(c) ==
    /\ calls[c].pc = "oracle"
    /\ LET result == [action |-> "continue",
                      reasoning |-> "Failed to get AI decision, continuing with default behavior"]
       IN  /\ ev' = [type |-> "error", id |-> calls[c].id,
                     result |-> Spread(result, [timestamp |-> now])]
           /\ decisionCache' =
                CacheSet(decisionCache, calls[c].id,
                         [decision |-> result, timestamp |-> calls[c].now])
    /\ calls' = [calls EXCEPT ![c] = Done]
    /\ UNCHANGED now

\* the oracle call threw anything else
OracleError(c) ==
    /\ calls[c].pc = "oracle"
    /\ ev' = [type |-> "error", id |-> calls[c].id,
              result |-> [action |-> "continue",
                          reasoning |-> "Failed to get AI decision, continuing with default behavior",
                          timestamp |-> now]]
    /\ calls' = [calls EXCEPT ![c] = Done]
    /\ UNCHANGED <<now, decisionCache>>

----------------------------------------------------------------------------
(* Numbers *)

\* Positions, distances and forces are JavaScript numbers. The model keeps them in
\* fixed point, as integer multiples of 1 / Unit, and cuts every quotient off
\* towards zero at that resolution.
Unit == 10

\* an integer column of the schema (pixels) as a fixed-point number
Px(n) == n * Unit

\* a / b
Trunc(a, b) == IF a >= 0 THEN a \div b ELSE -((-a) \div b)

AbsOf(a) == IF a < 0 THEN -a ELSE a

MaxOf(a, b) == IF a >= b THEN a ELSE b

MinOf(a, b) == IF a <= b THEN a ELSE b

\* the element of a one-element set: The({e(v) : v \in {a}}) is e(a) with a
\* computed once, as a const binding of the code is
The(S) == CHOOSE v \in S : TRUE

RECURSIVE SqrtFrom(_, _)
\* the largest r with r * r <= n, by Newton's steps down from an r at or above it
SqrtFrom(n, r) ==
    The({IF next >= r THEN r ELSE SqrtFrom(n, next) : next \in {(r + n \div r) \div 2}})

\* Math.sqrt, cut off
Sqrt(n) ==
    IF n = 0 THEN 0
    ELSE SqrtFrom(n, IF n < 100 THEN 10
                     ELSE IF n < 10000 THEN 100
                     ELSE IF n < 1000000 THEN 1000
                     ELSE IF n < 100000000 THEN 10000
                     ELSE 46340)

\* Math.sqrt, rounded up
SqrtUp(n) == The({IF r * r = n THEN r ELSE r + 1 : r \in {Sqrt(n)}})

RECURSIVE Mantissa(_, _)
\* the vector scaled by a power of ten that brings its larger component to four
\* digits: the direction is kept, and the squares below neither overflow nor
\* lose the vector to the resolution
Mantissa(x, y) ==
    The({IF m >= 10000 THEN Mantissa(Trunc(v.x, 10), Trunc(v.y, 10))
         ELSE IF m < 1000 /\ m > 0 THEN Mantissa(v.x * 10, v.y * 10)
         ELSE v :
            v \in {[x |-> x, y |-> y]}, m \in {MaxOf(AbsOf(x), AbsOf(y))}})

\* a sequence of numbers added up, as reduce and forEach do
RECURSIVE SumSeq(_)
SumSeq(s) == IF s = <<>> THEN 0 ELSE Head(s) + SumSeq(Tail(s))

----------------------------------------------------------------------------
(* The force model of useSwarm *)

\* const calculateDistance
calculateDistance(a, b) ==
    LET dx == a.x - b.x
        dy == a.y - b.y
    IN  Sqrt(dx * dx + dy * dy)

\* the squared distance
distanceSquared(a, b) == (a.x - b.x) * (a.x - b.x) + (a.y - b.y) * (a.y - b.y)

\* calculateDistance(a, b) < limit, compared on the squares
closerThan(a, b, limit) == limit > 0 /\ distanceSquared(a, b) < limit * limit

\* const normalizeVector; the magnitude is rounded up, so that the result is never
\* longer than 1
normalizeVector(x, y) ==
    IF x = 0 /\ y = 0 THEN [x |-> 0, y |-> 0]
    ELSE The({The({[x |-> Trunc(v.x * Unit, magnitude),
                    y |-> Trunc(v.y * Unit, magnitude)] :
                      magnitude \in {SqrtUp(v.x * v.x + v.y * v.y)}}) :
                 v \in {Mantissa(x, y)}})

\* a variant: the force inside the margin points to the edge
calculateBoundaryForceOutward(position, boundaries, boundaryForce) ==
    LET margin == Px(BoundaryMargin)
        forceX == IF position.x < margin THEN position.x - margin
                  ELSE IF position.x > boundaries.width - margin
                       THEN position.x - (boundaries.width - margin)
                       ELSE 0
        forceY == IF position.y < margin THEN position.y - margin
                  ELSE IF position.y > boundaries.height - margin
                       THEN position.y - (boundaries.height - margin)
                       ELSE 0
    IN  [x |-> Trunc(forceX * boundaryForce, 100),
         y |-> Trunc(forceY * boundaryForce, 100)]

\* a variant: the restoring force reaches to the middle of the arena
calculateBoundaryForceWide(position, boundaries, boundaryForce) ==
    LET margin == Px(CenterX)
        forceX == IF position.x < margin THEN margin - position.x
                  ELSE IF position.x > boundaries.width - margin
                       THEN boundaries.width - margin - position.x
                       ELSE 0
        forceY == IF position.y < margin THEN margin - position.y
                  ELSE IF position.y > boundaries.height - margin
                       THEN boundaries.height - margin - position.y
                       ELSE 0
    IN  [x |-> Trunc(forceX * boundaryForce, 100),
         y |-> Trunc(forceY * boundaryForce, 100)]

\* const calculateBoundaryForce
calculateBoundaryForce(position, boundaries, boundaryForce) ==
    LET margin == Px(BoundaryMargin)
        forceX == IF position.x < margin THEN margin - position.x
                  ELSE IF position.x > boundaries.width - margin
                       THEN boundaries.width - margin - position.x
                       ELSE 0
        forceY == IF position.y < margin THEN margin - position.y
                  ELSE IF position.y > boundaries.height - margin
                       THEN boundaries.height - margin - position.y
                       ELSE 0
    IN  [x |-> Trunc(forceX * boundaryForce, 100),
         y |-> Trunc(forceY * boundaryForce, 100)]

\* the switch on obstacle.effect, in tenths
effectMultiplier(effect) ==
    CASE effect = "repel" -> 15
      [] effect = "attract" -> -5
      [] effect = "slow" -> 3
      [] effect = "speed" -> 20
      [] OTHER -> 10

\* what one obstacle adds to totalForceX, totalForceY: cos and sin of
\* atan2(agent.y - obstacle.y, agent.x - obstacle.x) are the components of the
\* normalized offset, and atan2(0, 0) is 0
obstaclePush(agent, obstacle, obstacleAvoidance) ==
    LET center == [x |-> Px(obstacle.x), y |-> Px(obstacle.y)]
        reach == Px(obstacle.radius + ObstacleMargin)
        distance == calculateDistance(agent, center)
        dx == agent.x - center.x
        dy == agent.y - center.y
    IN  IF closerThan(agent, center, reach)
        THEN LET force == Trunc((reach - distance) * 100, reach)
                 weighted == Trunc(force * obstacleAvoidance, 100)
             IN  The({[x |-> Trunc(bearing.x * effective, 100),
                       y |-> Trunc(bearing.y * effective, 100)] :
                        effective \in
                            {Trunc(Trunc(weighted * effectMultiplier(obstacle.effect), 10)
                                       * obstacle.strength, 100)},
                        bearing \in {IF dx = 0 /\ dy = 0 THEN [x |-> Unit, y |-> 0]
                                     ELSE normalizeVector(dx, dy)}})
        ELSE [x |-> 0, y |-> 0]

\* const calculateObstacleAvoidance
calculateObstacleAvoidance(agent, obstacles, obstacleAvoidance) ==
    The({[x |-> SumSeq([o \in 1..Len(obstacles) |-> pushes[o].x]),
          y |-> SumSeq([o \in 1..Len(obstacles) |-> pushes[o].y])] :
            pushes \in {[o \in 1..Len(obstacles) |->
                            obstaclePush(agent, obstacles[o], obstacleAvoidance)]}})

Zero == [x |-> 0, y |-> 0]

\* environmentFeatures before the query of /api/environment has data: undefined,
\* written as a list that holds no feature but a marker
NotLoaded == <<[undefined |-> TRUE]>>

\* a variant: the filter keeps the neighbors at distance 0
nearbyNeighborsWithCoincident(agent, neighbors, cfg) ==
    SelectSeq(neighbors, LAMBDA n : closerThan(agent, n, Px(cfg.communicationRange)))

\* neighbors.filter(n => distance < config.communicationRange && distance > 0)
nearbyNeighborsOf(agent, neighbors, cfg) ==
    SelectSeq(neighbors,
              LAMBDA n : /\ closerThan(agent, n, Px(cfg.communicationRange))
                         /\ (n.x # agent.x \/ n.y # agent.y))

\* cohesionX, cohesionY
cohesionOf(agent, nearby, cfg) ==
    IF nearby = <<>> THEN Zero
    ELSE LET centerOfMass ==
                 [x |-> SumSeq([k \in 1..Len(nearby) |-> nearby[k].x]),
                  y |-> SumSeq([k \in 1..Len(nearby) |-> nearby[k].y])]
         IN  [x |-> Trunc((Trunc(centerOfMass.x, Len(nearby)) - agent.x) * cfg.cohesion, 100),
              y |-> Trunc((Trunc(centerOfMass.y, Len(nearby)) - agent.y) * cfg.cohesion, 100)]

\* what one neighbor takes off separationX, separationY
separationPush(agent, n, cfg) ==
    LET distance == calculateDistance(agent, n)
        separation == Px(cfg.separation)
    IN  IF closerThan(agent, n, separation)
        THEN [x |-> Trunc((n.x - agent.x) * (separation - distance), separation),
              y |-> Trunc((n.y - agent.y) * (separation - distance), separation)]
        ELSE Zero

\* separationX, separationY
separationOf(agent, nearby, cfg) ==
    The({[x |-> -SumSeq([k \in 1..Len(nearby) |-> pushes[k].x]),
          y |-> -SumSeq([k \in 1..Len(nearby) |-> pushes[k].y])] :
            pushes \in {[k \in 1..Len(nearby) |-> separationPush(agent, nearby[k], cfg)]}})

\* alignmentX, alignmentY
alignmentOf(agent, nearby) ==
    IF nearby = <<>> THEN Zero
    ELSE [x |-> Trunc(SumSeq([k \in 1..Len(nearby) |-> nearby[k].x - agent.x]), Len(nearby)),
          y |-> Trunc(SumSeq([k \in 1..Len(nearby) |-> nearby[k].y - agent.y]), Len(nearby))]

RECURSIVE closestLeaderLast(_, _, _)
\* a variant: a leader as close as the closest so far replaces it
closestLeaderLast(agent, closest, rest) ==
    IF rest = <<>> THEN closest
    ELSE closestLeaderLast(agent,
                           IF distanceSquared(agent, Head(rest)) <= distanceSquared(agent, closest)
                           THEN Head(rest) ELSE closest,
                           Tail(rest))

RECURSIVE closestLeaderOf(_, _, _)
\* leaders.reduce((closest, leader) => ...), started on the first leader
closestLeaderOf(agent, closest, rest) ==
    IF rest = <<>> THEN closest
    ELSE closestLeaderOf(agent,
                         IF distanceSquared(agent, Head(rest)) < distanceSquared(agent, closest)
                         THEN Head(rest) ELSE closest,
                         Tail(rest))

\* a variant: leaders are drawn to the closest leader as followers are
leaderInfluenceAnyRole(agent, nearby, cfg) ==
    LET leaders == SelectSeq(nearby, LAMBDA n : n.role = "leader")
    IN  IF leaders # <<>>
        THEN LET closestLeader == closestLeaderOf(agent, Head(leaders), Tail(leaders))
             IN  [x |-> Trunc((closestLeader.x - agent.x) * cfg.leaderInfluence, 100),
                  y |-> Trunc((closestLeader.y - agent.y) * cfg.leaderInfluence, 100)]
        ELSE Zero

\* leaderInfluenceX, leaderInfluenceY
leaderInfluenceOf(agent, nearby, cfg) ==
    LET leaders == SelectSeq(nearby, LAMBDA n : n.role = "leader")
    IN  IF agent.role = "follower" /\ leaders # <<>>
        THEN LET closestLeader == closestLeaderOf(agent, Head(leaders), Tail(leaders))
             IN  [x |-> Trunc((closestLeader.x - agent.x) * cfg.leaderInfluence, 100),
                  y |-> Trunc((closestLeader.y - agent.y) * cfg.leaderInfluence, 100)]
        ELSE Zero

\* totalX, totalY of calculateFlockingBehavior
totalForce(agent, neighbors, cfg, features) ==
    The({The({[x |-> cohesion.x + separation.x + alignment.x + leaderInfluence.x
                       + boundaryForce.x + obstacleForce.x,
               y |-> cohesion.y + separation.y + alignment.y + leaderInfluence.y
                       + boundaryForce.y + obstacleForce.y] :
                 cohesion \in {cohesionOf(agent, nearby, cfg)},
                 separation \in {separationOf(agent, nearby, cfg)},
                 alignment \in {alignmentOf(agent, nearby)},
                 leaderInfluence \in {leaderInfluenceOf(agent, nearby, cfg)},
                 boundaryForce \in
                     {calculateBoundaryForce(agent,
                          [width |-> Px(ArenaWidth), height |-> Px(ArenaHeight)],
                          cfg.boundaryForce)},
                 obstacleForce \in
                     {calculateObstacleAvoidance(agent, features, cfg.obstacleAvoidance)}}) :
            nearby \in {nearbyNeighborsOf(agent, neighbors, cfg)}})

\* const calculateFlockingBehavior
calculateFlockingBehavior(agent, neighbors, cfg, features) ==
    IF features = NotLoaded THEN Zero
    ELSE The({normalizeVector(total.x, total.y) :
                 total \in {totalForce(agent, neighbors, cfg, features)}})

\* agent.lastDecision?.action === 'move_towards' && agent.lastDecision.target
hasActionableTarget(agent) ==
    /\ Has(agent, "lastDecision")
    /\ Has(agent.lastDecision, "action")
    /\ agent.lastDecision.action = "move_towards"
    /\ Has(agent.lastDecision, "target")

\* a variant: the pull to the target is averaged in by both branches
displacementAlwaysBlends(agent, list, cfg, features, blends) ==
    The({LET dx == flockingForce.x * cfg.speed
             dy == flockingForce.y * cfg.speed
         IN  IF hasActionableTarget(agent)
             THEN The({[x |-> Trunc(dx + aiForce.x * cfg.speed, 2),
                        y |-> Trunc(dy + aiForce.y * cfg.speed, 2)] :
                         aiForce \in
                             {normalizeVector(Px(agent.lastDecision.target.x) - agent.x,
                                              Px(agent.lastDecision.target.y) - agent.y)}})
             ELSE [x |-> dx, y |-> dy] :
            flockingForce \in {calculateFlockingBehavior(agent, list, cfg, features)}})

\* a variant: the pull to the target is added, not averaged in
displacementAdds(agent, list, cfg, features, blends) ==
    The({LET dx == flockingForce.x * cfg.speed
             dy == flockingForce.y * cfg.speed
         IN  IF blends /\ hasActionableTarget(agent)
             THEN The({[x |-> dx + aiForce.x * cfg.speed,
                        y |-> dy + aiForce.y * cfg.speed] :
                         aiForce \in
                             {normalizeVector(Px(agent.lastDecision.target.x) - agent.x,
                                              Px(agent.lastDecision.target.y) - agent.y)}})
             ELSE [x |-> dx, y |-> dy] :
            flockingForce \in {calculateFlockingBehavior(agent, list, cfg, features)}})

\* dx, dy of one agent: speed * force, averaged with the pull to the target where
\* the branch blends
displacementOf(agent, list, cfg, features, blends) ==
    The({LET dx == flockingForce.x * cfg.speed
             dy == flockingForce.y * cfg.speed
         IN  IF blends /\ hasActionableTarget(agent)
             THEN The({[x |-> Trunc(dx + aiForce.x * cfg.speed, 2),
                        y |-> Trunc(dy + aiForce.y * cfg.speed, 2)] :
                         aiForce \in
                             {normalizeVector(Px(agent.lastDecision.target.x) - agent.x,
                                              Px(agent.lastDecision.target.y) - agent.y)}})
             ELSE [x |-> dx, y |-> dy] :
            flockingForce \in {calculateFlockingBehavior(agent, list, cfg, features)}})

\* a variant: the new coordinate is taken as it is
clampNot(value, limit) == value

\* Math.max(0, Math.min(limit, value))
clamp(value, limit) == MaxOf(0, MinOf(limit, value))

\* one element of newAgents
movedAgent(agent, list, cfg, features, blends) ==
    The({[agent EXCEPT !.x = clamp(agent.x + d.x, Px(ArenaWidth)),
                       !.y = clamp(agent.y + d.y, Px(ArenaHeight))] :
            d \in {displacementOf(agent, list, cfg, features, blends)}})

RECURSIVE advancedFrom(_, _, _, _, _)
\* a variant: the agents are advanced one after the other in the list itself
advancedFrom(list, i, cfg, features, blends) ==
    IF i > Len(list) THEN list
    ELSE The({advancedFrom(next, i + 1, cfg, features, blends) :
                 next \in {[list EXCEPT ![i] =
                               movedAgent(list[i], list, cfg, features, blends)]}})

\* a variant: each agent's force sees the agents before it already moved
newAgentsInPlace(list, cfg, features, blends) == advancedFrom(list, 1, cfg, features, blends)

\* newAgents of the AI branch (blends) and of the else branch
newAgentsOf(list, cfg, features, blends) ==
    The({[i \in 1..Len(current) |->
             movedAgent(current[i], current, cfg, features, blends)] :
            current \in {list}})

----------------------------------------------------------------------------
(* useSwarm.updatePositions, driven by SwarmCanvas' animate loops *)

\* the row getConfig inserts when there is none, with the schema's column defaults
DefaultConfig ==
    [aiEnabled |-> FALSE, speed |-> 2, cohesion |-> 50, separation |-> 30,
     decisionInterval |-> 1000,
     sensorRange |-> 100, boundaryForce |-> 50, obstacleAvoidance |-> 70,
     leaderInfluence |-> 70, communicationRange |-> 100]

\* the sensors and memory columns of the rows initializeAgents inserts; nothing
\* calls storage.updateAgentSensors, so the rows keep them
StoredSensors ==
    [nearbyObstacles |-> <<>>, nearbyResources |-> <<>>, localDensity |-> 0,
     boundaryDistance |-> [top |-> 0, right |-> 0, bottom |-> 0, left |-> 0]]
StoredMemory == [interactions |-> <<>>, resourceLocations |-> <<>>]

\* the rows initializeAgents inserts: the first a leader, each at whole pixels; here
\* the leader in the centre and the followers in a row beside it, 150 pixels apart
\* and so out of each other's communication range
InitialAgents ==
    [i \in 1..NumAgents |->
        [id |-> i, role |-> IF i = 1 THEN "leader" ELSE "follower",
         x |-> Px(CenterX + 150 * (i - 1)), y |-> Px(CenterY),
         sensors |-> StoredSensors, memory |-> StoredMemory]]

\* the query data of /api/environment in the ticks: loaded, nothing placed
LoadedFeatures == <<>>

\* what a render hands to the closures of updatePositions and animate
Closure(agentList, cfg) == [agents |-> agentList, config |-> cfg]

ClientInstants ==
    {t \in {k * DecisionGate + r : k \in 0..((MaxTickTime \div DecisionGate) + 1),
                                   r \in {-1, 0}} :
        t >= 0 /\ t <= MaxTickTime}

\* what response.json() yields: a decision served from the cache, and the terminal
\* fallback of a failed oracle call with its new Date().toISOString() stamp
ResponseMove ==
    [action |-> "move_towards", reasoning |-> "go", target |-> [x |-> 10, y |-> 10],
     priority |-> 8, reused |-> TRUE]
ResponseContinue ==
    [action |-> "continue",
     reasoning |-> "Failed to get AI decision, continuing with default behavior",
     timestamp |-> "1970-01-01T00:00:05.000Z"]

Responses == {ResponseMove, ResponseContinue}

Ok(decision) == [kind |-> "ok", decision |-> decision]
Failed == [kind |-> "failed"]
Pending == [kind |-> "pending"]
NotAsked == [kind |-> "none"]

\* a variant: the gate looks at the flag only
shouldUpdateAIFlagOnly(cfg, n, last) == cfg.aiEnabled

\* config.aiEnabled && (now - lastDecisionTime.current >= 5000)
shouldUpdateAI(cfg, n, last) == cfg.aiEnabled /\ (n - last >= DecisionGate)

\* a variant: every follower is asked, whatever its draw
isEligibleAll(agent, drawn) == agent.role = "leader" \/ agent.role = "follower"

\* agent.role === 'leader' || (Math.random() < 0.2 && agent.role === 'follower')
isEligible(agent, drawn) ==
    agent.role = "leader" \/ (drawn /\ agent.role = "follower")

\* agentsWithSensors.find(a => a.id === agent.id), for the agent at index i, where
\* picked holds the indexes whose draw came out below 0.2
shouldGetAIDecision(agentList, picked, i) ==
    \E j \in 1..Len(agentList) :
        /\ isEligible(agentList[j], j \in picked)
        /\ agentList[j].id = agentList[i].id

\* the indexes of agents.map's callbacks that call apiRequest, in list order
RECURSIVE requestsFrom(_, _, _)
requestsFrom(agentList, picked, i) ==
    IF i > Len(agentList) THEN <<>>
    ELSE (IF shouldGetAIDecision(agentList, picked, i) THEN <<i>> ELSE <<>>)
         \o requestsFrom(agentList, picked, i + 1)

\* Math.atan2(dy, dx) in degrees, to the nearest 45
Atan2Deg(dy, dx) ==
    LET ady == AbsOf(dy)
        adx == AbsOf(dx)
        acute == IF ady * 1000 < adx * 414 THEN 0
                 ELSE IF adx * 1000 < ady * 414 THEN 90 ELSE 45
    IN  IF dx = 0 /\ dy = 0 THEN 0
        ELSE IF dx >= 0 THEN (IF dy >= 0 THEN acute ELSE -acute)
        ELSE (IF dy >= 0 THEN 180 - acute ELSE acute - 180)

\* zoneMult of a neighbor, in tenths: the effect of the first zone it is in
zoneMult(n, features) ==
    LET zones == SelectSeq(features,
                     LAMBDA f : /\ f.type = "zone"
                                /\ closerThan(n, [x |-> Px(f.x), y |-> Px(f.y)], Px(f.radius)))
    IN  IF zones = <<>> THEN 10
        ELSE IF Head(zones).effect = "attract" THEN 15
        ELSE IF Head(zones).effect = "repel" THEN 5 ELSE 10

\* what one neighbor adds to density, in thousandths
densityOf(agent, n, cfg, features) ==
    IF closerThan(agent, n, Px(cfg.sensorRange))
    THEN Trunc((Px(cfg.sensorRange) - calculateDistance(agent, n)) * 100 * zoneMult(n, features),
               Px(cfg.sensorRange))
    ELSE 0

\* const updateAgentSensors: the agent with the sensors of where it is now;
\* localDensity in thousandths, and 0 / 0 under a sensorRange of 0; distances in
\* tenths
updateAgentSensors(agent, neighbors, cfg, features) ==
    IF features = NotLoaded THEN agent
    ELSE LET localDensity ==
                 IF cfg.sensorRange = 0 THEN "NaN"
                 ELSE Trunc(SumSeq([k \in 1..Len(neighbors) |->
                                      densityOf(agent, neighbors[k], cfg, features)]),
                            cfg.sensorRange)
             inRange == SelectSeq(features,
                            LAMBDA f : closerThan(agent, [x |-> Px(f.x), y |-> Px(f.y)],
                                                  Px(cfg.sensorRange)))
             nearbyObstacles ==
                 [k \in 1..Len(inRange) |->
                     [id |-> inRange[k].id, type |-> inRange[k].type,
                      distance |-> calculateDistance(agent,
                                       [x |-> Px(inRange[k].x), y |-> Px(inRange[k].y)]),
                      direction |-> Atan2Deg(Px(inRange[k].y) - agent.y,
                                             Px(inRange[k].x) - agent.x)]]
             boundaryDistance ==
                 [top |-> agent.y, right |-> Px(ArenaWidth) - agent.x,
                  bottom |-> Px(ArenaHeight) - agent.y, left |-> agent.x]
         IN  Spread(agent, [sensors |-> [nearbyObstacles |-> nearbyObstacles,
                                         localDensity |-> localDensity,
                                         boundaryDistance |-> boundaryDistance]])

\* agents.filter(a => a.id !== agent.id)
othersOf(agent, agentList) == SelectSeq(agentList, LAMBDA a : a.id # agent.id)

\* agentsWithSensors: the eligible agents, each with the sensors of this tick
agentsWithSensorsOf(agentList, picked, cfg, features) ==
    LET eligible == SelectSeq([i \in 1..Len(agentList) |-> i],
                              LAMBDA i : isEligible(agentList[i], i \in picked))
    IN  [r \in 1..Len(eligible) |->
            updateAgentSensors(agentList[eligible[r]],
                               othersOf(agentList[eligible[r]], agentList), cfg, features)]

\* the body of POST /api/agents/:id/decision
requestBodyOf(agent, agentList) ==
    LET others == othersOf(agent, agentList)
    IN  [position |-> [x |-> agent.x, y |-> agent.y],
         role |-> agent.role,
         memory |-> IF Has(agent, "memory") THEN agent.memory
                    ELSE [interactions |-> <<>>],
         sensors |-> agent.sensors,
         neighbors |-> [k \in 1..Len(others) |->
                          [id |-> others[k].id, role |-> others[k].role,
                           x |-> others[k].x, y |-> others[k].y]]]

\* what one callback of agents.map returns
settledAgent(agent, outcome) ==
    IF outcome.kind = "ok"
    THEN Spread(agent, [lastDecision |-> Spread(outcome.decision, [reused |-> FALSE])])
    ELSE agent

\* which displacement the integration gives an agent: speed * force, or its average
\* with the pull to the decision's target
displacementRule(agent) ==
    IF /\ Has(agent, "lastDecision")
       /\ agent.lastDecision.action = "move_towards"
       /\ Has(agent.lastDecision, "target")
    THEN "blend"
    ELSE "flock"

movesOf(agentList) == [i \in 1..Len(agentList) |-> displacementRule(agentList[i])]

\* updatedAgents of a tick whose requests have all settled
updatedAgentsOf(tick) ==
    [i \in 1..Len(tick.agents) |-> settledAgent(tick.agents[i], tick.outcomes[i])]

FreeTicks == {k \in 1..MaxTicks : ticks[k].pc = "idle"}

\* Date.now() moves on between frames
Elapse(t) ==
    /\ t \in ClientInstants
    /\ t > now
    /\ now' = t
    /\ ev' = [type |-> "time"]
    /\ UNCHANGED <<agents, config, loops, lastDecisionTime, ticks, sampleTimes>>

\* the controls post a config and the config query is refetched
SetConfig(enabled) ==
    /\ enabled # config.aiEnabled
    /\ config' = [config EXCEPT !.aiEnabled = enabled]
    /\ ev' = [type |-> "config"]
    /\ UNCHANGED <<now, agents, loops, lastDecisionTime, ticks, sampleTimes>>

\* the component renders with the current query data and its effect starts one more
\* animate loop; the loops started before keep running on what they captured
Render ==
    LET fresh == Closure(agents, config)
    IN  /\ fresh \notin loops
        /\ Cardinality(loops) < MaxLoops
        /\ loops' = loops \cup {fresh}
        /\ ev' = [type |-> "render"]
        /\ UNCHANGED <<now, agents, config, lastDecisionTime, ticks, sampleTimes>>

\* updatePositions, else branch: flocking only, committed at once
FlockTick(cl) ==
    /\ cl \in loops
    /\ ~shouldUpdateAI(cl.config, now, lastDecisionTime)
    /\ agents' = newAgentsOf(cl.agents, cl.config, LoadedFeatures, FALSE)
    /\ ev' = [type |-> "flock", moves |-> [i \in 1..Len(cl.agents) |-> "flock"]]
    /\ UNCHANGED <<now, config, loops, lastDecisionTime, ticks, sampleTimes>>

\* updatePositions, AI branch up to the await: the gate, the draw, the requests
SampleTick(cl, picked) ==
    /\ cl \in loops
    /\ shouldUpdateAI(cl.config, now, lastDecisionTime)
    /\ FreeTicks # {}
    /\ lastDecisionTime' = now
    /\ sampleTimes' = <<sampleTimes[2], now>>
    /\ LET k == CHOOSE f \in FreeTicks : \A o \in FreeTicks : f <= o
           requests == requestsFrom(cl.agents, picked, 1)
           asked == {requests[r] : r \in 1..Len(requests)}
           agentsWithSensors ==
               agentsWithSensorsOf(cl.agents, picked, cl.config, LoadedFeatures)
       IN  /\ IF requests = <<>>
              THEN /\ agents' = newAgentsOf(cl.agents, cl.config, LoadedFeatures, TRUE)
                   /\ UNCHANGED ticks
              ELSE /\ ticks' = [ticks EXCEPT ![k] =
                         [pc |-> "await", agents |-> cl.agents, config |-> cl.config,
                          requests |-> requests,
                          outcomes |-> [i \in 1..Len(cl.agents) |->
                                           IF i \in asked THEN Pending ELSE NotAsked]]]
                   /\ UNCHANGED agents
           /\ ev' = [type |-> "sample", tick |-> k, aiEnabled |-> cl.config.aiEnabled,
                     agents |-> cl.agents, picked |-> picked, requests |-> requests,
                     agentsWithSensors |-> agentsWithSensors,
                     bodies |-> [r \in 1..Len(requests) |->
                                   requestBodyOf(cl.agents[requests[r]], cl.agents)]]
    /\ UNCHANGED <<now, config, loops>>

\* a variant: the first failed request ends the wait and the tick commits
SettleFailFast(k, i, outcome) ==
    /\ ticks[k].pc = "await"
    /\ i \in 1..Len(ticks[k].agents)
    /\ ticks[k].outcomes[i].kind = "pending"
    /\ LET tick == [ticks[k] EXCEPT !.outcomes[i] = outcome]
           done == outcome.kind = "failed"
                   \/ \A j \in 1..Len(tick.agents) : tick.outcomes[j].kind # "pending"
       IN  IF done
           THEN /\ agents' = newAgentsOf(updatedAgentsOf(tick), tick.config,
                                         LoadedFeatures, TRUE)
                /\ ticks' = [ticks EXCEPT ![k] = [pc |-> "idle"]]
                /\ ev' = [type |-> "commit", tick |-> k, requests |-> tick.requests,
                          outcomes |-> tick.outcomes,
                          moves |-> movesOf(updatedAgentsOf(tick))]
           ELSE /\ ticks' = [ticks EXCEPT ![k] = tick]
                /\ ev' = [type |-> "settle", tick |-> k]
                /\ UNCHANGED agents
    /\ UNCHANGED <<now, config, loops, lastDecisionTime, sampleTimes>>

\* a variant: a failed request rejects Promise.all, and the tick never integrates
SettleRejects(k, i, outcome) ==
    /\ ticks[k].pc = "await"
    /\ i \in 1..Len(ticks[k].agents)
    /\ ticks[k].outcomes[i].kind = "pending"
    /\ LET tick == [ticks[k] EXCEPT !.outcomes[i] = outcome]
           done == /\ \A j \in 1..Len(tick.agents) : tick.outcomes[j].kind # "pending"
                   /\ \A j \in 1..Len(tick.agents) : tick.outcomes[j].kind # "failed"
       IN  IF done
           THEN /\ agents' = newAgentsOf(updatedAgentsOf(tick), tick.config,
                                         LoadedFeatures, TRUE)
                /\ ticks' = [ticks EXCEPT ![k] = [pc |-> "idle"]]
                /\ ev' = [type |-> "commit", tick |-> k, requests |-> tick.requests,
                          outcomes |-> tick.outcomes,
                          moves |-> movesOf(updatedAgentsOf(tick))]
           ELSE /\ ticks' = [ticks EXCEPT ![k] = tick]
                /\ ev' = [type |-> "settle", tick |-> k]
                /\ UNCHANGED agents
    /\ UNCHANGED <<now, config, loops, lastDecisionTime, sampleTimes>>

\* one request of a suspended tick settles: its callback records the decision, or
\* catches the error; after the last one Promise.all resolves and the tick
\* integrates and commits
Settle(k, i, outcome) ==
    /\ ticks[k].pc = "await"
    /\ i \in 1..Len(ticks[k].agents)
    /\ ticks[k].outcomes[i].kind = "pending"
    /\ LET tick == [ticks[k] EXCEPT !.outcomes[i] = outcome]
           done == \A j \in 1..Len(tick.agents) : tick.outcomes[j].kind # "pending"
       IN  IF done
           THEN /\ agents' = newAgentsOf(updatedAgentsOf(tick), tick.config,
                                         LoadedFeatures, TRUE)
                /\ ticks' = [ticks EXCEPT ![k] = [pc |-> "idle"]]
                /\ ev' = [type |-> "commit", tick |-> k, requests |-> tick.requests,
                          outcomes |-> tick.outcomes,
                          moves |-> movesOf(updatedAgentsOf(tick))]
           ELSE /\ ticks' = [ticks EXCEPT ![k] = tick]
                /\ ev' = [type |-> "settle", tick |-> k]
                /\ UNCHANGED agents
    /\ UNCHANGED <<now, config, loops, lastDecisionTime, sampleTimes>>

\* the hook before its first tick: data loaded, one loop running
InitClient ==
    /\ agents = InitialAgents
    /\ config = DefaultConfig
    /\ loops = {Closure(InitialAgents, DefaultConfig)}
    /\ lastDecisionTime = 0
    /\ ticks = [k \in 1..MaxTicks |-> [pc |-> "idle"]]
    /\ sampleTimes = <<-1, -1>>

\* the rows initializeResources inserts into an empty table, one for the clusters
InitialResources ==
    <<[id |-> 1, type |-> "resource", x |-> 400, y |-> 300, radius |-> 10,
       effect |-> "collectible", strength |-> 100, resourceType |-> "energy",
       value |-> 10, collected |-> FALSE]>>

\* buildPrompt not applied
NotBuilt == [built |-> FALSE]

InitPromptIdle ==
    /\ bpIn = <<>>
    /\ bpOut = NotBuilt

\* no updateConfig completed
NoUpdate == [none |-> TRUE]

\* the database after the start of the server: no config row before the first
\* getConfig or updateConfig, the resources placed
InitStorage ==
    /\ configRows = <<>>
    /\ featureRows = InitialResources
    /\ dbCalls = EmptyBag
    /\ lastUpdate = NoUpdate

\* the service before its first call: new Map(), nothing in flight
InitService ==
    /\ now = 0
    /\ decisionCache = [k \in {} |-> Idle]
    /\ calls = [c \in 1..MaxCalls |-> Idle]
    /\ ev = [type |-> "init"]

\* the integration not applied
NotApplied == [applied |-> FALSE]

InitIntegrateIdle ==
    /\ igIn = [agents |-> <<>>, config |-> DefaultConfig, features |-> <<>>,
               blends |-> FALSE]
    /\ igOut = NotApplied

\* the pure functions not applied
InitPureIdle ==
    /\ InitIntegrateIdle
    /\ fbCtx = MakeContext("follower", FarBoundary, <<>>, <<>>)
    /\ fbOut = [action |-> "none"]
    /\ pdIn = ContentNull
    /\ pdOut = [action |-> "none"]

Init ==
    /\ InitService
    /\ InitStorage
    /\ InitPromptIdle
    /\ InitPureIdle
    /\ InitClient

Next ==
    \/ \E t \in Instants : Advance(t) /\ UNCHANGED <<pureVars, clientVars, storageVars>>
    \/ \E id \in AgentIds, context \in CallContexts :
          GetAgentDecisionStart(id, context) /\ UNCHANGED <<pureVars, clientVars, storageVars>>
    \/ \E c \in 1..MaxCalls, content \in OracleContents :
          OracleSuccess(c, content) /\ UNCHANGED <<pureVars, clientVars, storageVars>>
    \/ \E c \in 1..MaxCalls, r1 \in RandomDraws, r2 \in RandomDraws :
          OracleRateLimited(c, r1, r2) /\ UNCHANGED <<pureVars, clientVars, storageVars>>
    \/ \E c \in 1..MaxCalls : OracleError(c) /\ UNCHANGED <<pureVars, clientVars, storageVars>>

Spec == Init /\ [][Next]_vars

----------------------------------------------------------------------------
(* SpecFallback: getBasicSwarmBehavior on every context *)

ApplyFallback(r1, r2) ==
    /\ fbOut.action = "none"
    /\ fbOut' = getBasicSwarmBehavior(fbCtx, r1, r2)
    /\ UNCHANGED <<fbCtx, pdIn, pdOut, igIn, igOut, bpIn, bpOut>>

InitFallback ==
    /\ InitService
    /\ InitStorage
    /\ InitPromptIdle
    /\ InitClient
    /\ InitIntegrateIdle
    /\ fbCtx \in FallbackContexts
    /\ fbOut = [action |-> "none"]
    /\ pdIn = ContentNull
    /\ pdOut = [action |-> "none"]

NextFallback ==
    \E r1 \in RandomDraws, r2 \in RandomDraws :
        ApplyFallback(r1, r2) /\ UNCHANGED <<serverVars, clientVars, storageVars>>

SpecFallback == InitFallback /\ [][NextFallback]_vars

----------------------------------------------------------------------------
(* SpecParse: parseDecision on every content *)

JsonBase == [kind |-> "json"]

ActionParts ==
    {JsonBase} \cup
    {[kind |-> "json", action |-> a] : a \in {"", "move_towards", "explore", "avoid", "dance"}}

ReasoningParts ==
    {JsonBase} \cup {[kind |-> "json", reasoning |-> r] : r \in {"", "why"}}

TargetParts ==
    {JsonBase, [kind |-> "json", target |-> [x |-> 10, y |-> 10]]}

PriorityParts ==
    {JsonBase} \cup {[kind |-> "json", priority |-> q] : q \in {0, 8}}

ParseContents ==
    {ContentNull, ContentInvalid, ContentJsonNull} \cup
    {Spread(Spread(a, r), Spread(t, q)) :
        a \in ActionParts, r \in ReasoningParts, t \in TargetParts, q \in PriorityParts}

ApplyParse ==
    /\ pdOut.action = "none"
    /\ pdOut' = parseDecision(pdIn)
    /\ UNCHANGED <<fbCtx, fbOut, pdIn, igIn, igOut, bpIn, bpOut>>

InitParse ==
    /\ InitService
    /\ InitStorage
    /\ InitPromptIdle
    /\ InitClient
    /\ InitIntegrateIdle
    /\ fbCtx = MakeContext("follower", FarBoundary, <<>>, <<>>)
    /\ fbOut = [action |-> "none"]
    /\ pdIn \in ParseContents
    /\ pdOut = [action |-> "none"]

NextParse == ApplyParse /\ UNCHANGED <<serverVars, clientVars, storageVars>>

SpecParse == InitParse /\ [][NextParse]_vars

----------------------------------------------------------------------------
(* SpecPrompt: recentInteractions of AIService.buildPrompt on every interaction log *)

\* what new Date().toISOString() gives for the seconds after the epoch
IsoStamps ==
    <<"1970-01-01T00:00:01.000Z", "1970-01-01T00:00:02.000Z", "1970-01-01T00:00:03.000Z",
      "1970-01-01T00:00:04.000Z", "1970-01-01T00:00:05.000Z", "1970-01-01T00:00:06.000Z",
      "1970-01-01T00:00:07.000Z", "1970-01-01T00:00:08.000Z", "1970-01-01T00:00:09.000Z">>

\* new Date(timestamp).getTime(), in ms
DateGetTime(timestamp) ==
    1000 * (CHOOSE second \in DOMAIN IsoStamps : IsoStamps[second] = timestamp)

\* the interactions a log is made of: one per agent met, the first two at the same
\* instant, the others a second apart
Interactions ==
    {[agentId |-> k, type |-> "meet",
      timestamp |-> IsoStamps[IF k = 1 THEN 1 ELSE k - 1]] : k \in 1..MaxLog}

\* the logs: the interactions in any number and any order
RECURSIVE LogsOf(_)
LogsOf(rest) ==
    {<<>>} \cup UNION {{<<i>> \o log : log \in LogsOf(rest \ {i})} : i \in rest}

\* a variant: (a, b) => time(a) - time(b), oldest first
compareOldestFirst(a, b) == DateGetTime(a.timestamp) - DateGetTime(b.timestamp)

\* (a, b) => new Date(b.timestamp).getTime() - new Date(a.timestamp).getTime()
compareNewestFirst(a, b) == DateGetTime(b.timestamp) - DateGetTime(a.timestamp)

\* one interaction put into a sorted list, behind the ones it does not come before
RECURSIVE insertSorted(_, _)
insertSorted(sorted, item) ==
    IF sorted = <<>> THEN <<item>>
    ELSE IF compareNewestFirst(Head(sorted), item) <= 0
    THEN <<Head(sorted)>> \o insertSorted(Tail(sorted), item)
    ELSE <<item>> \o sorted

\* Array.prototype.sort with the comparator: a stable sort
RECURSIVE sortInteractions(_)
sortInteractions(list) ==
    IF list = <<>> THEN <<>>
    ELSE insertSorted(sortInteractions(SubSeq(list, 1, Len(list) - 1)), list[Len(list)])

\* a variant: the log is cut before it is sorted
recentInteractionsCutFirst(interactions) ==
    sortInteractions(SubSeq(interactions, 1, MinOf(MemoryLimit, Len(interactions))))

\* context.memory.interactions.sort(...).slice(0, 5)
recentInteractions(interactions) ==
    The({SubSeq(sorted, 1, MinOf(MemoryLimit, Len(sorted))) :
            sorted \in {sortInteractions(interactions)}})

ApplyPrompt ==
    /\ ~bpOut.built
    /\ bpOut' = [built |-> TRUE, recentInteractions |-> recentInteractions(bpIn)]
    /\ UNCHANGED <<fbCtx, fbOut, pdIn, pdOut, igIn, igOut, bpIn>>

InitPrompt ==
    /\ InitService
    /\ InitStorage
    /\ InitClient
    /\ InitIntegrateIdle
    /\ fbCtx = MakeContext("follower", FarBoundary, <<>>, <<>>)
    /\ fbOut = [action |-> "none"]
    /\ pdIn = ContentNull
    /\ pdOut = [action |-> "none"]
    /\ bpIn \in LogsOf(Interactions)
    /\ bpOut = NotBuilt

NextPrompt == ApplyPrompt /\ UNCHANGED <<serverVars, clientVars, storageVars>>

SpecPrompt == InitPrompt /\ [][NextPrompt]_vars

----------------------------------------------------------------------------
(* SpecIntegrate: the two integrations of updatePositions on every agent list *)

\* where agents are put, in pixels: the centre, 5 and 50 pixels from it, next to the
\* left edge, and in the bottom right corner
IntegratePositions ==
    {[x |-> 400, y |-> 300], [x |-> 403, y |-> 304], [x |-> 440, y |-> 330],
     [x |-> 10, y |-> 300], [x |-> 799, y |-> 599]}

\* what an agent may carry as lastDecision: nothing, a stored move_towards whose
\* target the oracle put outside the arena, and a stored explore with a target
StoredMove ==
    [action |-> "move_towards", reasoning |-> "go", target |-> [x |-> 900, y |-> 700],
     priority |-> 8, reused |-> FALSE]
StoredExplore ==
    [action |-> "explore", reasoning |-> "look around", target |-> [x |-> 10, y |-> 10],
     priority |-> 7, timestamp |-> "1970-01-01T00:00:05.000Z", reused |-> FALSE]

DecisionParts ==
    {<<>>, [lastDecision |-> StoredMove], [lastDecision |-> StoredExplore]}

\* the agent lists of n agents: one leader, as initializeAgents makes them, at any
\* index, since the rows are selected without an order
AgentListsOf(n) ==
    {[i \in 1..n |->
        Spread([id |-> i, role |-> IF i = l THEN "leader" ELSE "follower",
                x |-> Px(pos[i].x), y |-> Px(pos[i].y)], dec[i])] :
        l \in 1..n, pos \in [1..n -> IntegratePositions], dec \in [1..n -> DecisionParts]}

AgentLists == UNION {AgentListsOf(n) : n \in 1..NumAgents}

\* a config without boundary force and separation, and a faster swarm
QuietConfig == [DefaultConfig EXCEPT !.boundaryForce = 0, !.separation = 0, !.speed = 5]

RepelObstacle ==
    [id |-> 1, type |-> "obstacle", x |-> 420, y |-> 300, radius |-> 20,
     effect |-> "repel", strength |-> 50]

FeatureLists == {NotLoaded, <<>>, <<RepelObstacle>>}

\* the config and feature list a tick runs with, and whether it is the AI branch
IntegrateSettings ==
    {[config |-> DefaultConfig, features |-> f, blends |-> b] :
        f \in FeatureLists, b \in BOOLEAN}
    \cup {[config |-> QuietConfig, features |-> <<>>, blends |-> b] : b \in BOOLEAN}

\* flockingForce, dx and dy, and newAgents of one tick
integrationOf(in) ==
    [applied |-> TRUE,
     forces |-> [i \in 1..Len(in.agents) |->
                    calculateFlockingBehavior(in.agents[i], in.agents, in.config, in.features)],
     displacements |-> [i \in 1..Len(in.agents) |->
                    displacementOf(in.agents[i], in.agents, in.config, in.features, in.blends)],
     newAgents |-> newAgentsOf(in.agents, in.config, in.features, in.blends)]

ApplyIntegrate ==
    /\ ~igOut.applied
    /\ igOut' = integrationOf(igIn)
    /\ UNCHANGED <<fbCtx, fbOut, pdIn, pdOut, igIn, bpIn, bpOut>>

InitIntegrate ==
    /\ InitService
    /\ InitStorage
    /\ InitPromptIdle
    /\ InitClient
    /\ fbCtx = MakeContext("follower", FarBoundary, <<>>, <<>>)
    /\ fbOut = [action |-> "none"]
    /\ pdIn = ContentNull
    /\ pdOut = [action |-> "none"]
    /\ igIn \in {Spread([agents |-> list], setting) :
                    list \in AgentLists, setting \in IntegrateSettings}
    /\ igOut = NotApplied

NextIntegrate == ApplyIntegrate /\ UNCHANGED <<serverVars, clientVars, storageVars>>

SpecIntegrate == InitIntegrate /\ [][NextIntegrate]_vars

----------------------------------------------------------------------------
(* SpecForce: one tick of a crowd, agents of any role close to each other *)

\* positions in each other's communication range, three of them in separation
\* range, and two of those 5 pixels from the first
CrowdPositions ==
    {[x |-> 400, y |-> 300], [x |-> 403, y |-> 304], [x |-> 404, y |-> 303],
     [x |-> 440, y |-> 330]}

\* a stored move_towards whose target is the first of the positions
StoredMoveHere ==
    [action |-> "move_towards", reasoning |-> "stay", target |-> [x |-> 400, y |-> 300],
     priority |-> 8, reused |-> FALSE]

\* one agent more than SpecIntegrate has; calculateFlockingBehavior takes any agent
\* and any list, so the lists hold any roles; the first agent holds any of the
\* stored decisions
CrowdLists ==
    {[i \in 1..(NumAgents + 1) |->
        Spread([id |-> i, role |-> roles[i], x |-> Px(pos[i].x), y |-> Px(pos[i].y)],
               IF i = 1 THEN dec ELSE <<>>)] :
        roles \in [1..(NumAgents + 1) -> {"leader", "follower"}],
        pos \in [1..(NumAgents + 1) -> CrowdPositions],
        dec \in {<<>>, [lastDecision |-> StoredMove], [lastDecision |-> StoredMoveHere]}}

InitForce ==
    /\ InitService
    /\ InitStorage
    /\ InitPromptIdle
    /\ InitClient
    /\ fbCtx = MakeContext("follower", FarBoundary, <<>>, <<>>)
    /\ fbOut = [action |-> "none"]
    /\ pdIn = ContentNull
    /\ pdOut = [action |-> "none"]
    /\ igIn \in {[agents |-> list, config |-> cfg, features |-> <<>>, blends |-> b] :
                    list \in CrowdLists, cfg \in {DefaultConfig, QuietConfig},
                    b \in BOOLEAN}
    /\ igOut = NotApplied

SpecForce == InitForce /\ [][NextIntegrate]_vars

----------------------------------------------------------------------------
(* SpecConfig: POST /api/config, and the ticks that read what it stored *)

\* a JSON value of the request body: a number, or something that is not one
JsonNumber(n) == [type |-> "number", value |-> n]
JsonText == [type |-> "string", value |-> 0]

\* the columns the bodies set: the four without a default, and boundaryForce
RequiredFields == {"agentCount", "speed", "cohesion", "separation"}
IntegerFields == RequiredFields \cup {"boundaryForce"}

\* insertConfigSchema.safeParse(req.body): createInsertSchema(swarmConfig) asks for
\* the columns without a default and for a number in every integer column it
\* finds; it knows no range
insertConfigSchema(body) ==
    [success |-> /\ RequiredFields \subseteq DOMAIN body
                 /\ \A f \in DOMAIN body \cap IntegerFields : body[f].type = "number",
     data |-> [f \in DOMAIN body \cap IntegerFields |-> body[f].value]]

\* the bodies posted: the sliders' values, values outside the sliders' ranges, a
\* text where a number belongs, and a body without cohesion
ConfigBodies ==
    {Spread([agentCount |-> JsonNumber(20), separation |-> JsonNumber(30),
             speed |-> speed, cohesion |-> cohesion], rest) :
        speed \in {JsonNumber(2), JsonNumber(-1)},
        cohesion \in {JsonNumber(50), JsonNumber(500), JsonText},
        rest \in {<<>>, [boundaryForce |-> JsonNumber(-5)]}}
    \cup {[agentCount |-> JsonNumber(20), separation |-> JsonNumber(30),
           speed |-> JsonNumber(2)]}

\* app.post("/api/config"), storage.updateConfig and the refetch of the config query
PostConfig(body) ==
    LET parsed == insertConfigSchema(body)
    IN  /\ IF parsed.success
           THEN /\ config' = Spread(config, parsed.data)
                /\ ev' = [type |-> "config", status |-> 200]
           ELSE /\ ev' = [type |-> "config", status |-> 400]
                /\ UNCHANGED config
        /\ UNCHANGED <<now, agents, loops, lastDecisionTime, ticks, sampleTimes>>

NextConfig ==
    \/ \E body \in ConfigBodies :
          PostConfig(body) /\ UNCHANGED <<decisionCache, calls, pureVars, storageVars>>
    \/ Render /\ UNCHANGED <<decisionCache, calls, pureVars, storageVars>>
    \/ \E cl \in loops : FlockTick(cl) /\ UNCHANGED <<decisionCache, calls, pureVars, storageVars>>

SpecConfig == Init /\ [][NextConfig]_vars

----------------------------------------------------------------------------
(* SpecStorage: GET and POST /api/config with the awaits of DatabaseStorage.getConfig *)
(* and updateConfig; SpecRoutes: registerRoutes, each handler in one step up to the    *)
(* answer or, for the decision, up to the await of the oracle                          *)

\* the values getConfig inserts when it finds no row
GetConfigDefaults ==
    [agentCount |-> 20, speed |-> 2, cohesion |-> 50, separation |-> 30,
     sensorRange |-> 100, boundaryForce |-> 50, obstacleAvoidance |-> 70]

\* db.insert(swarmConfig).values(values).returning(): the columns without a value
\* take their defaults, the id is the next of the serial
insertedConfigRow(rows, values) ==
    Spread(Spread(DefaultConfig, values), [id |-> Len(rows) + 1])

\* db.update(swarmConfig).set(values).where(eq(swarmConfig.id, id))
updatedConfigRows(rows, id, values) ==
    [r \in 1..Len(rows) |-> IF rows[r].id = id THEN Spread(rows[r], values) ELSE rows[r]]

\* the bodies of POST /api/config: two that pass the schema, one with a text in a
\* number column and one without a required column
RouteConfigBodies ==
    {[agentCount |-> JsonNumber(20), separation |-> JsonNumber(30),
      speed |-> JsonNumber(speed), cohesion |-> JsonNumber(50)] : speed \in {3, 4}}
    \cup {[agentCount |-> JsonNumber(20), separation |-> JsonNumber(30),
            speed |-> JsonNumber(2), cohesion |-> JsonText],
          [agentCount |-> JsonNumber(20), separation |-> JsonNumber(30),
           speed |-> JsonNumber(2)]}

\* a call starts if fewer than MaxDbCalls are running
Started(call) == dbCalls (+) SetToBag({call})
Ended(call) == dbCalls (-) SetToBag({call})
CanStart == BagCardinality(dbCalls) < MaxDbCalls

\* GET /api/config up to the first write: getConfig's select, whose first row is
\* any row, since the query has no order; without a row the insert is next
GetConfigRoute ==
    /\ IF configRows # <<>>
       THEN /\ \E r \in 1..Len(configRows) :
                  ev' = [type |-> "getConfig", status |-> 200, result |-> configRows[r]]
            /\ UNCHANGED dbCalls
       ELSE /\ CanStart
            /\ dbCalls' = Started([pc |-> "insert", kind |-> "getConfig",
                                    values |-> GetConfigDefaults])
            /\ ev' = [type |-> "select", kind |-> "getConfig"]
    /\ UNCHANGED <<configRows, featureRows, lastUpdate>>

\* POST /api/config up to the first write: safeParse, the 400 answer, or
\* updateConfig's select
PostConfigRoute(body) ==
    LET parsed == insertConfigSchema(body)
    IN  IF ~parsed.success
        THEN /\ ev' = [type |-> "postConfig", body |-> body, status |-> 400]
             /\ UNCHANGED <<configRows, featureRows, dbCalls, lastUpdate>>
        ELSE /\ CanStart
             /\ IF configRows = <<>>
                THEN dbCalls' = Started([pc |-> "insert", kind |-> "updateConfig",
                                         values |-> parsed.data])
                ELSE \E r \in 1..Len(configRows) :
                         dbCalls' = Started([pc |-> "update", kind |-> "updateConfig",
                                             id |-> configRows[r].id,
                                             values |-> parsed.data])
             /\ ev' = [type |-> "postConfig", body |-> body, status |-> 0]
             /\ UNCHANGED <<configRows, featureRows, lastUpdate>>

\* the insert of getConfig and of updateConfig, and the answer of the route
DbInsertConfig(call) ==
    /\ BagIn(call, dbCalls)
    /\ call.pc = "insert"
    /\ configRows' = Append(configRows, insertedConfigRow(configRows, call.values))
    /\ ev' = [type |-> call.kind, status |-> 200,
              result |-> insertedConfigRow(configRows, call.values)]
    /\ lastUpdate' = IF call.kind = "updateConfig" THEN call.values ELSE lastUpdate
    /\ dbCalls' = Ended(call)
    /\ UNCHANGED featureRows

\* the update of updateConfig, and the answer of the route
DbUpdateConfig(call) ==
    /\ BagIn(call, dbCalls)
    /\ call.pc = "update"
    /\ configRows' = updatedConfigRows(configRows, call.id, call.values)
    /\ ev' = [type |-> "updateConfig", status |-> 200,
              result |-> CHOOSE row \in {configRows'[r] : r \in 1..Len(configRows)} :
                             row.id = call.id]
    /\ lastUpdate' = call.values
    /\ dbCalls' = Ended(call)
    /\ UNCHANGED featureRows

NextStorage ==
    \/ GetConfigRoute /\ UNCHANGED <<now, decisionCache, calls, pureVars, clientVars>>
    \/ \E body \in RouteConfigBodies :
          PostConfigRoute(body)
              /\ UNCHANGED <<now, decisionCache, calls, pureVars, clientVars>>
    \/ \E call \in BagToSet(dbCalls) :
          DbInsertConfig(call)
              /\ UNCHANGED <<now, decisionCache, calls, pureVars, clientVars>>
    \/ \E call \in BagToSet(dbCalls) :
          DbUpdateConfig(call)
              /\ UNCHANGED <<now, decisionCache, calls, pureVars, clientVars>>

SpecStorage == Init /\ [][NextStorage]_vars

\* getConfig and updateConfig with no other call between their select and their
\* write: the rows after the call, and the row it returns
getConfigAlone(rows) ==
    IF rows # <<>> THEN rows ELSE <<insertedConfigRow(rows, GetConfigDefaults)>>
updateConfigAlone(rows, values) ==
    IF rows # <<>> THEN updatedConfigRows(rows, rows[1].id, values)
    ELSE <<insertedConfigRow(rows, values)>>

\* GET /api/config, served alone
GetConfigAlone ==
    /\ configRows' = getConfigAlone(configRows)
    /\ ev' = [type |-> "getConfig", status |-> 200, result |-> configRows'[1]]
    /\ UNCHANGED <<featureRows, dbCalls, lastUpdate>>

\* POST /api/config, served alone
PostConfigAlone(body) ==
    LET parsed == insertConfigSchema(body)
    IN  IF ~parsed.success
        THEN /\ ev' = [type |-> "postConfig", body |-> body, status |-> 400]
             /\ UNCHANGED <<configRows, featureRows, dbCalls, lastUpdate>>
        ELSE /\ configRows' = updateConfigAlone(configRows, parsed.data)
             /\ lastUpdate' = parsed.data
             /\ ev' = [type |-> "postConfig", body |-> body, status |-> 200,
                       result |-> configRows'[1]]
             /\ UNCHANGED <<featureRows, dbCalls>>

\* the columns of environment_features the insert schema requires, with the type
\* of their values, and the ones it takes if they are there
RequiredFeatureFields ==
    [type |-> "string", x |-> "number", y |-> "number", radius |-> "number",
     effect |-> "string"]
OptionalFeatureFields ==
    [strength |-> "number", resourceType |-> "string", value |-> "number",
     collected |-> "boolean"]

JsonString(text) == [type |-> "string", value |-> text]
JsonBoolean(flag) == [type |-> "boolean", value |-> flag]

\* insertEnvironmentFeatureSchema.safeParse
insertEnvironmentFeatureSchema(body) ==
    LET known == Spread(RequiredFeatureFields, OptionalFeatureFields)
    IN  [success |-> /\ DOMAIN RequiredFeatureFields \subseteq DOMAIN body
                     /\ \A f \in DOMAIN body \cap DOMAIN known : body[f].type = known[f],
         data |-> [f \in DOMAIN body \cap DOMAIN known |-> body[f].value]]

\* the bodies of POST /api/environment: an obstacle, a resource that is sent as
\* collected, a body with a text as radius and one without an effect
ObstacleBody ==
    [type |-> JsonString("obstacle"), x |-> JsonNumber(420), y |-> JsonNumber(300),
     radius |-> JsonNumber(20), effect |-> JsonString("repel")]
FeatureBodies ==
    {ObstacleBody,
     [type |-> JsonString("resource"), x |-> JsonNumber(100), y |-> JsonNumber(100),
      radius |-> JsonNumber(10), effect |-> JsonString("collectible"),
      strength |-> JsonNumber(100), collected |-> JsonBoolean(TRUE)],
     [ObstacleBody EXCEPT !.radius = JsonString("wide")],
     Without(ObstacleBody, "effect")}

\* db.insert(environmentFeatures).values(feature).returning()
insertedFeatureRow(rows, feature) ==
    Spread(Spread([strength |-> 50, collected |-> FALSE], feature),
           [id |-> Len(rows) + 1])

\* a variant: the insert puts every row back to not collected
addEnvironmentFeatureResets(rows, feature) ==
    Append([r \in 1..Len(rows) |-> [rows[r] EXCEPT !.collected = FALSE]],
           insertedFeatureRow(rows, feature))

\* DatabaseStorage.addEnvironmentFeature
addEnvironmentFeature(rows, feature) == Append(rows, insertedFeatureRow(rows, feature))

\* GET /api/environment
GetEnvironmentRoute ==
    /\ ev' = [type |-> "getEnvironment", status |-> 200, result |-> featureRows]
    /\ UNCHANGED <<configRows, featureRows, dbCalls, lastUpdate>>

\* a variant: the feature is stored before the body is looked at
PostEnvironmentRouteStoresInvalid(body) ==
    LET parsed == insertEnvironmentFeatureSchema(body)
    IN  /\ Len(featureRows) < MaxFeatures
        /\ featureRows' = addEnvironmentFeature(featureRows, parsed.data)
        /\ ev' = [type |-> "postEnvironment", body |-> body,
                  status |-> IF parsed.success THEN 200 ELSE 400]
        /\ UNCHANGED <<configRows, dbCalls, lastUpdate>>

\* POST /api/environment
PostEnvironmentRoute(body) ==
    LET parsed == insertEnvironmentFeatureSchema(body)
    IN  IF ~parsed.success
        THEN /\ ev' = [type |-> "postEnvironment", body |-> body, status |-> 400]
             /\ UNCHANGED <<configRows, featureRows, dbCalls, lastUpdate>>
        ELSE /\ Len(featureRows) < MaxFeatures
             /\ featureRows' = addEnvironmentFeature(featureRows, parsed.data)
             /\ ev' = [type |-> "postEnvironment", body |-> body, status |-> 200,
                       result |-> featureRows'[Len(featureRows')]]
             /\ UNCHANGED <<configRows, dbCalls, lastUpdate>>

\* the digits of a text, and the value of a text of digits
Digits == [c \in {"0", "1", "2", "3", "4", "5", "6", "7", "8", "9"} |->
              CASE c = "0" -> 0 [] c = "1" -> 1 [] c = "2" -> 2 [] c = "3" -> 3
                [] c = "4" -> 4 [] c = "5" -> 5 [] c = "6" -> 6 [] c = "7" -> 7
                [] c = "8" -> 8 [] c = "9" -> 9]

RECURSIVE leadingDigits(_)
leadingDigits(text) ==
    IF text = <<>> \/ Head(text) \notin DOMAIN Digits THEN <<>>
    ELSE <<Head(text)>> \o leadingDigits(Tail(text))

RECURSIVE digitsValue(_, _)
digitsValue(text, sofar) ==
    IF text = <<>> THEN sofar
    ELSE digitsValue(Tail(text), sofar * 10 + Digits[Head(text)])

\* parseInt: the number the leading digits of the text spell, NaN without one
NaN == [nan |-> TRUE]
parseInt(text) ==
    IF leadingDigits(text) = <<>> THEN NaN
    ELSE [nan |-> FALSE, value |-> digitsValue(leadingDigits(text), 0)]

isNaN(number) == number.nan

\* req.params.id of POST /api/agents/:id/decision, character by character
IdParams == {<<"1">>, <<"2", "x">>, <<"x", "1">>}

\* req.body of the route
RouteContext == MakeContext("leader", NearTop, <<>>, <<>>)

\* POST /api/agents/:id/decision up to the await in getAgentDecision
PostDecisionRoute(param, context) ==
    LET agentId == parseInt(param)
    IN  IF isNaN(agentId)
        THEN /\ ev' = [type |-> "postDecision", param |-> param, status |-> 400]
             /\ UNCHANGED <<now, decisionCache, calls, storageVars>>
        ELSE /\ GetAgentDecisionStart(agentId.value, context)
             /\ UNCHANGED storageVars

NextRoutes ==
    \/ GetConfigAlone /\ UNCHANGED <<now, decisionCache, calls, pureVars, clientVars>>
    \/ \E body \in RouteConfigBodies :
          PostConfigAlone(body)
              /\ UNCHANGED <<now, decisionCache, calls, pureVars, clientVars>>
    \/ GetEnvironmentRoute /\ UNCHANGED <<now, decisionCache, calls, pureVars, clientVars>>
    \/ \E body \in FeatureBodies :
          PostEnvironmentRoute(body)
              /\ UNCHANGED <<now, decisionCache, calls, pureVars, clientVars>>
    \/ \E param \in IdParams :
          PostDecisionRoute(param, RouteContext) /\ UNCHANGED <<pureVars, clientVars>>

SpecRoutes == Init /\ [][NextRoutes]_vars

----------------------------------------------------------------------------
(* SpecTick: the client's ticks *)

NextTick ==
    \/ \E t \in ClientInstants : Elapse(t) /\ UNCHANGED <<decisionCache, calls, pureVars, storageVars>>
    \/ \E enabled \in BOOLEAN :
          SetConfig(enabled) /\ UNCHANGED <<decisionCache, calls, pureVars, storageVars>>
    \/ Render /\ UNCHANGED <<decisionCache, calls, pureVars, storageVars>>
    \/ \E cl \in loops : FlockTick(cl) /\ UNCHANGED <<decisionCache, calls, pureVars, storageVars>>
    \/ \E cl \in loops, picked \in SUBSET (1..NumAgents) :
          SampleTick(cl, picked) /\ UNCHANGED <<decisionCache, calls, pureVars, storageVars>>
    \/ \E k \in 1..MaxTicks, i \in 1..NumAgents, decision \in Responses :
          Settle(k, i, Ok(decision)) /\ UNCHANGED <<decisionCache, calls, pureVars, storageVars>>
    \/ \E k \in 1..MaxTicks, i \in 1..NumAgents :
          Settle(k, i, Failed) /\ UNCHANGED <<decisionCache, calls, pureVars, storageVars>>

SpecTick == Init /\ [][NextTick]_vars

\* the request of agent i in tick k settles, one way or the other
SettleSome(k, i) ==
    /\ \/ \E decision \in Responses : Settle(k, i, Ok(decision))
       \/ Settle(k, i, Failed)
    /\ UNCHANGED <<decisionCache, calls, pureVars, storageVars>>

\* the request of agent i in tick k is out: the state in which SettleSome(k, i) can
\* happen
RequestOut(k, i) ==
    /\ ticks[k].pc = "await"
    /\ i \in 1..Len(ticks[k].agents)
    /\ ticks[k].outcomes[i].kind = "pending"

\* fetch settles: a request that is out is answered or fails in the end. This is
\* weak fairness of SettleSome(k, i), written out with RequestOut(k, i) for
\* ENABLED <<SettleSome(k, i)>>_vars
RequestsSettle ==
    \A k \in 1..MaxTicks, i \in 1..NumAgents :
        \/ []<>(~RequestOut(k, i))
        \/ []<><<SettleSome(k, i)>>_vars

SpecTickLive == Init /\ [][NextTick]_vars /\ RequestsSettle

----------------------------------------------------------------------------
(* Properties of getAgentDecision (Spec) *)

\* the step just taken entered getAgentDecision for agent id
Entered(id) == ev'.type \in {"hit", "miss"} /\ ev'.id = id

\* the suspended call that the step just taken resumed
Resumed(c) == calls[c].pc = "oracle" /\ calls'[c].pc = "done"

\* C1: a call that finds an entry younger than 5000 ms returns that entry's fields
\* with reused = true, starts no oracle call and leaves the cache as it was, whatever
\* context it carries; a call that finds no entry, or one aged 5000 ms or more, goes
\* to the oracle.
C1_FreshEntryReused ==
    [][\A id \in AgentIds :
        Entered(id) =>
            IF HasEntry(decisionCache, id) /\ now - decisionCache[id].timestamp < CacheTTL
            THEN /\ ev'.type = "hit"
                 /\ DOMAIN ev'.result = DOMAIN decisionCache[id].decision \cup {"reused"}
                 /\ ev'.result.reused = TRUE
                 /\ \A k \in DOMAIN decisionCache[id].decision \ {"reused"} :
                        ev'.result[k] = decisionCache[id].decision[k]
                 /\ decisionCache' = decisionCache
                 /\ calls' = calls
            ELSE /\ ev'.type = "miss"
                 /\ \E c \in 1..MaxCalls :
                        calls[c].pc = "idle" /\ calls'[c].pc = "oracle" /\ calls'[c].id = id
    ]_vars

\* C1 witness: an entry one millisecond short of the TTL has just been reused
C1_Witness ==
    /\ ev.type = "hit"
    /\ HasEntry(decisionCache, ev.id)
    /\ now - decisionCache[ev.id].timestamp = CacheTTL - 1

\* C2: a quota or rate-limit failure ends with the rule-based fallback stored in the
\* cache under the agent's id.
C2_RateLimitFallbackCached ==
    [][ev'.type = "ratelimit" =>
        /\ HasEntry(decisionCache', ev'.id)
        /\ decisionCache'[ev'.id].decision.action = ev'.result.action
        /\ \E c \in 1..MaxCalls :
              Resumed(c) /\ decisionCache'[ev'.id].timestamp \in {calls[c].now, now}
    ]_vars

\* C3: any other oracle failure returns action "continue" and leaves the whole cache
\* as it was, and a call that finds no entry younger than 5000 ms goes to the oracle.
C3_ErrorNotCached ==
    [][/\ ev'.type = "error" =>
            /\ ev'.result.action = "continue"
            /\ decisionCache' = decisionCache
       /\ \A id \in AgentIds :
            (Entered(id) /\ ~(HasEntry(decisionCache, id)
                               /\ now - decisionCache[id].timestamp < CacheTTL))
                => ev'.type = "miss"
    ]_vars

\* C3 witness: a call failed while an older entry of the same agent was in the cache
C3_Witness ==
    /\ ev.type = "error"
    /\ HasEntry(decisionCache, ev.id)
    /\ decisionCache[ev.id].timestamp < now

\* C4 as stated: on success the entry carries the time of the store, and the returned
\* decision is not marked reused.
C4_StoredWithCurrentTime ==
    [][ev'.type = "success" =>
        /\ HasEntry(decisionCache', ev'.id)
        /\ decisionCache'[ev'.id].decision = Without(ev'.result, "timestamp")
        /\ decisionCache'[ev'.id].timestamp = now
        /\ ~(Has(ev'.result, "reused") /\ ev'.result.reused = TRUE)
    ]_vars

\* C4 amended: on success the parsed decision is stored under the requesting agent's
\* id with the time read when the call started, and the returned decision carries no
\* reused key.
C4_StoredWithCallStartTime ==
    [][ev'.type = "success" =>
        \E c \in 1..MaxCalls :
            /\ Resumed(c)
            /\ calls[c].id = ev'.id
            /\ HasEntry(decisionCache', ev'.id)
            /\ decisionCache'[ev'.id].decision = Without(ev'.result, "timestamp")
            /\ decisionCache'[ev'.id].timestamp = calls[c].now
            /\ ~Has(ev'.result, "reused")
    ]_vars

\* C4 witness: an answer that arrived after the clock had moved has been stored
C4_Witness ==
    /\ ev.type = "success"
    /\ HasEntry(decisionCache, ev.id)
    /\ decisionCache[ev.id].timestamp < now
    /\ ev.result.timestamp = now

\* C7: every decision obtained on oracle success carries a priority, 5 when the
\* answer has none, also for null content.
C7_SuccessHasPriority ==
    ev.type = "success" =>
        /\ Has(ev.result, "priority")
        /\ Has(decisionCache[ev.id].decision, "priority")
        /\ ~Has(ev.content, "priority") => ev.result.priority = DefaultPriority

----------------------------------------------------------------------------
(* Properties of getBasicSwarmBehavior (SpecFallback) *)

Abs(n) == IF n < 0 THEN -n ELSE n

\* some listed obstacle is closer than 50, i.e. the nearest one is
nearestObstacleNear(context) ==
    \E i \in 1..Len(context.sensors.nearbyObstacles) :
        context.sensors.nearbyObstacles[i].distance < NearDistance

\* C5: the fallback is decided by the first matching rule: boundary, nearest obstacle,
\* leader role, leader neighbor, align.
C5_FallbackRuleOrder ==
    fbOut.action # "none" =>
        IF \E d \in BoundaryValues(fbCtx.sensors.boundaryDistance) : d < NearDistance
        THEN /\ fbOut.action = "avoid" /\ fbOut.priority = 9
             /\ Abs(fbOut.target.x - CenterX) <= JitterOffset
             /\ Abs(fbOut.target.y - CenterY) <= JitterOffset
        ELSE IF nearestObstacleNear(fbCtx)
        THEN fbOut.action = "avoid" /\ fbOut.priority = 8
        ELSE IF fbCtx.role = "leader"
        THEN fbOut.action = "explore" /\ fbOut.priority = 7
        ELSE IF \E i \in 1..Len(fbCtx.neighbors) : fbCtx.neighbors[i].role = "leader"
        THEN /\ fbOut.action = "follow" /\ fbOut.priority = 8
             /\ \E i \in 1..Len(fbCtx.neighbors) :
                    /\ fbCtx.neighbors[i].role = "leader"
                    /\ fbOut.target = [x |-> fbCtx.neighbors[i].x, y |-> fbCtx.neighbors[i].y]
        ELSE fbOut.action = "align" /\ fbOut.priority = 5 /\ ~Has(fbOut, "target")

----------------------------------------------------------------------------
(* Properties of parseDecision (SpecParse) *)

\* C6: every parsed decision has one of the eight known actions and a reasoning.
C6_ActionAlwaysKnown ==
    pdOut.action # "none" =>
        /\ pdOut.action \in KnownActions
        /\ Has(pdOut, "reasoning") /\ pdOut.reasoning # ""
        /\ (~Has(pdIn, "action") \/ pdIn.action \notin KnownActions)
                => pdOut.action = "continue"

----------------------------------------------------------------------------
(* Properties of updatePositions (SpecTick) *)

\* how often index i occurs among the requests
RequestCount(requests, i) == Cardinality({r \in 1..Len(requests) : requests[r] = i})

C9_OneRequestPerEligible ==
    [][ev'.type = "sample" =>
        /\ \A i \in 1..Len(ev'.agents) :
              RequestCount(ev'.requests, i) =
                  IF \/ ev'.agents[i].role = "leader"
                     \/ (i \in ev'.picked /\ ev'.agents[i].role = "follower")
                  THEN 1 ELSE 0
        /\ \A r \in 1..Len(ev'.requests) : ev'.requests[r] \in 1..Len(ev'.agents)
        /\ Len(ev'.requests) <= Len(ev'.agents)
        /\ ev'.requests # <<>> =>
              /\ ticks'[ev'.tick].requests = ev'.requests
              /\ \A i \in 1..Len(ev'.agents) :
                    ticks'[ev'.tick].outcomes[i].kind =
                        IF RequestCount(ev'.requests, i) = 1 THEN "pending" ELSE "none"
    ]_vars

\* C9 witness: a sampling tick asked for the leader and left a follower out
C9_Witness ==
    /\ ev.type = "sample"
    /\ \E i \in 1..Len(ev.agents) :
          ev.agents[i].role = "follower" /\ RequestCount(ev.requests, i) = 0
    /\ \E i \in 1..Len(ev.agents) :
          ev.agents[i].role = "leader" /\ RequestCount(ev.requests, i) = 1

\* C10: a sampling tick integrates and commits only when every one of its requests
\* has settled, and whichever requests failed, every agent whose own request
\* succeeded has that decision recorded in the committed state and used for its
\* displacement.
C10_CommitAfterAllSettled ==
    [][ev'.type = "commit" =>
        LET k == ev'.tick
        IN  /\ ticks[k].pc = "await" /\ ticks'[k].pc = "idle"
            /\ ev'.requests = ticks[k].requests
            /\ \A r \in 1..Len(ev'.requests) :
                  ev'.outcomes[ev'.requests[r]].kind \in {"ok", "failed"}
            /\ \A i \in 1..Len(ticks[k].agents) :
                  /\ ticks[k].outcomes[i].kind \in {"ok", "failed"}
                        => ev'.outcomes[i] = ticks[k].outcomes[i]
                  /\ ev'.outcomes[i].kind = "ok" =>
                        LET decision == ev'.outcomes[i].decision
                        IN  /\ Has(agents'[i], "lastDecision")
                            /\ \A f \in DOMAIN decision \ {"reused"} :
                                  agents'[i].lastDecision[f] = decision[f]
                            /\ ev'.moves[i] =
                                  IF decision.action = "move_towards" /\ Has(decision, "target")
                                  THEN "blend" ELSE "flock"
    ]_vars

\* C10 witness: a tick has committed after one request failed and another succeeded
\* with a move_towards decision
C10_Witness ==
    /\ ev.type = "commit"
    /\ \E i, j \in 1..Len(agents) :
          /\ ev.outcomes[i].kind = "failed"
          /\ ev.outcomes[j].kind = "ok"
          /\ Has(agents[j], "lastDecision")
          /\ agents[j].lastDecision.action = "move_towards"
          /\ ev.moves[j] = "blend"

\* C11: every sampling tick that is waiting for its requests goes on to integrate and
\* commit a whole agent list, whatever mix of answers and failures its requests
\* meet, as long as each request settles; a tick that does not sample commits in
\* the step that starts it.
C11_TickCommits ==
    \A k \in 1..MaxTicks :
        (ticks[k].pc = "await") ~>
            (ev.type = "commit" /\ ev.tick = k /\ ticks[k].pc = "idle"
                /\ Len(agents) = NumAgents)

\* C11 witness: a tick has committed although every request it issued failed
C11_Witness ==
    /\ ev.type = "commit"
    /\ ev.requests # <<>>
    /\ \A r \in 1..Len(ev.requests) : ev.outcomes[ev.requests[r]].kind = "failed"
    /\ Len(agents) = NumAgents

\* the ticks whose requests have not all settled
Gathering == {k \in 1..MaxTicks : ticks[k].pc = "await"}

\* C12: decision gathering of two ticks never overlaps: while a tick still has
\* unsettled requests no other tick has issued requests.
C12_NoOverlappingGathering == Cardinality(Gathering) <= 1

\* C14: in a sampling tick only the agents that received a decision in this tick are
\* blended towards a target; an agent that was not asked, or whose request failed,
\* is displaced by speed * force alone, whatever lastDecision it still holds.
C14_BlendOnlyFreshDecisions ==
    [][ev'.type = "commit" =>
        \A i \in 1..Len(agents') :
            ev'.outcomes[i].kind # "ok" => ev'.moves[i] = "flock"
    ]_vars

\* C15: an eligible agent whose request failed has the "continue" fallback as its
\* lastDecision after the tick.
C15_FailedRequestContinues ==
    [][ev'.type = "commit" =>
        \A i \in 1..Len(agents') :
            ev'.outcomes[i].kind = "failed" =>
                /\ Has(agents'[i], "lastDecision")
                /\ agents'[i].lastDecision.action = "continue"
    ]_vars

\* the step just taken returned a decision from getAgentDecision
Returned == ev.type \in {"hit", "success", "ratelimit", "error"}

\* C18: every decision getAgentDecision returns, from the oracle, the cache or a
\* fallback, has a target exactly when its action is move_towards or avoid.
C18_TargetIffDestination ==
    Returned =>
        (Has(ev.result, "target") <=> ev.result.action \in {"move_towards", "avoid"})

----------------------------------------------------------------------------
(* Properties of the integration (SpecIntegrate) *)

\* the list in another order
Reversed(list) == [j \in 1..Len(list) |-> list[Len(list) + 1 - j]]

\* C13: within one tick every agent's force and new position come from the
\* positions all agents had at the start of the tick, so that the new list does not
\* depend on the order of the agents: integrating the list in reverse order gives
\* the same result in reverse order.
C13_ForcesFromTickStart ==
    igOut.applied =>
        LET list == igIn.agents
        IN  /\ \A i \in 1..Len(list) :
                  igOut.newAgents[i] =
                      movedAgent(list[i], list, igIn.config, igIn.features, igIn.blends)
            /\ newAgentsOf(Reversed(list), igIn.config, igIn.features, igIn.blends)
                  = Reversed(igOut.newAgents)

\* C13 witness: two agents in range of each other have both moved in one tick
C13_Witness ==
    /\ igOut.applied
    /\ \E i, j \in 1..Len(igIn.agents) :
          /\ i < j
          /\ nearbyNeighborsOf(igIn.agents[i], igIn.agents, igIn.config) # <<>>
          /\ nearbyNeighborsOf(igIn.agents[j], igIn.agents, igIn.config) # <<>>
          /\ igOut.newAgents[i].x # igIn.agents[i].x
          /\ igOut.newAgents[j].x # igIn.agents[j].x

\* the list with every lastDecision taken off
Undecided(list) == [i \in 1..Len(list) |-> Without(list[i], "lastDecision")]

\* C17: in a tick that does not sample, every agent's displacement is speed * force
\* with no blending, also for an agent holding a move_towards lastDecision with a
\* target, and it is the displacement the sampling branch gives an agent that has no
\* actionable target.
C17_NoBlendWithoutSampling ==
    (igOut.applied /\ ~igIn.blends) =>
        LET list == igIn.agents
            sampled == newAgentsOf(Undecided(list), igIn.config, igIn.features, TRUE)
        IN  \A i \in 1..Len(list) :
               /\ igOut.displacements[i] =
                      [x |-> igOut.forces[i].x * igIn.config.speed,
                       y |-> igOut.forces[i].y * igIn.config.speed]
               /\ igOut.newAgents[i].x = clamp(list[i].x + igOut.displacements[i].x,
                                               Px(ArenaWidth))
               /\ igOut.newAgents[i].y = clamp(list[i].y + igOut.displacements[i].y,
                                               Px(ArenaHeight))
               /\ igOut.newAgents[i].x = sampled[i].x
               /\ igOut.newAgents[i].y = sampled[i].y

\* C17 witness: a tick that did not sample has moved an agent that holds a
\* move_towards lastDecision with a target
C17_Witness ==
    /\ igOut.applied
    /\ ~igIn.blends
    /\ \E i \in 1..Len(igIn.agents) :
          /\ hasActionableTarget(igIn.agents[i])
          /\ igOut.displacements[i] # Zero
          /\ igOut.newAgents[i].x # igIn.agents[i].x

\* the squared distance from an agent to a target given in pixels
toTarget(agent, target) == distanceSquared(agent, [x |-> Px(target.x), y |-> Px(target.y)])

\* a single leader, away from the edges, with no features placed, in a sampling tick
\* after the oracle answered "explore" with a target
ExploreScenario ==
    /\ igOut.applied
    /\ igIn.blends
    /\ igIn.features = <<>>
    /\ Len(igIn.agents) = 1
    /\ igIn.agents[1].role = "leader"
    /\ igIn.agents[1].x = Px(CenterX) /\ igIn.agents[1].y = Px(CenterY)
    /\ Has(igIn.agents[1], "lastDecision")
    /\ igIn.agents[1].lastDecision.action = "explore"
    /\ Has(igIn.agents[1].lastDecision, "target")

\* C19: in that scenario the committed position is strictly closer to the target
\* than the position before the tick, and lies in the arena.
C19_ExploreMovesToTarget ==
    ExploreScenario =>
        /\ toTarget(igOut.newAgents[1], igIn.agents[1].lastDecision.target)
               < toTarget(igIn.agents[1], igIn.agents[1].lastDecision.target)
        /\ igOut.newAgents[1].x \in 0..Px(ArenaWidth)
        /\ igOut.newAgents[1].y \in 0..Px(ArenaHeight)

\* an agent with no other agent in communication range and no features placed
Alone(i) ==
    /\ igOut.applied
    /\ i \in 1..Len(igIn.agents)
    /\ igIn.features = <<>>
    /\ nearbyNeighborsOf(igIn.agents[i], igIn.agents, igIn.config) = <<>>

\* more than the margin away from all four edges, or exactly on it
InsideMargin(agent) ==
    /\ agent.x >= Px(BoundaryMargin) /\ agent.x <= Px(ArenaWidth - BoundaryMargin)
    /\ agent.y >= Px(BoundaryMargin) /\ agent.y <= Px(ArenaHeight - BoundaryMargin)

\* C20 as stated: wherever in the arena the agent is, with zero neighbors and an empty
\* feature list the force is the zero vector and a tick without blending leaves
\* the agent where it is.
C20_AloneForceZero ==
    \A i \in 1..NumAgents :
        Alone(i) =>
            /\ igOut.forces[i] = Zero
            /\ ~igIn.blends =>
                  /\ igOut.newAgents[i].x = igIn.agents[i].x
                  /\ igOut.newAgents[i].y = igIn.agents[i].y

\* C20 amended: the same for an agent that is at least 50 units from all four edges,
\* or under a boundaryForce of 0; within 50 units of an edge, with a boundaryForce
\* whose restoring force does not vanish, the force is not zero.
C20_AloneInsideMarginForceZero ==
    \A i \in 1..NumAgents :
        Alone(i) =>
            IF InsideMargin(igIn.agents[i]) \/ igIn.config.boundaryForce = 0
            THEN /\ igOut.forces[i] = Zero
                 /\ ~igIn.blends =>
                       /\ igOut.newAgents[i].x = igIn.agents[i].x
                       /\ igOut.newAgents[i].y = igIn.agents[i].y
            ELSE calculateBoundaryForce(igIn.agents[i],
                     [width |-> Px(ArenaWidth), height |-> Px(ArenaHeight)],
                     igIn.config.boundaryForce) # Zero
                 => igOut.forces[i] # Zero

\* C20 witness: an agent alone in the middle of the arena, under a boundaryForce
\* above 0, was integrated without blending
C20_Witness ==
    /\ Alone(1)
    /\ InsideMargin(igIn.agents[1])
    /\ igIn.config.boundaryForce > 0
    /\ ~igIn.blends
    /\ igOut.newAgents[1].x = igIn.agents[1].x

\* C16: every committed position lies in [0, 800] x [0, 600], whatever decisions and
\* targets the agents hold, and a commit is one whole list: every agent of the tick,
\* each with its new position and nothing else changed.
C16_CommittedInArena ==
    igOut.applied =>
        /\ Len(igOut.newAgents) = Len(igIn.agents)
        /\ \A i \in 1..Len(igIn.agents) :
              /\ igOut.newAgents[i].x \in 0..Px(ArenaWidth)
              /\ igOut.newAgents[i].y \in 0..Px(ArenaHeight)
              /\ Without(Without(igOut.newAgents[i], "x"), "y")
                    = Without(Without(igIn.agents[i], "x"), "y")

\* C16 witness: a displacement that leads out of the arena was cut at the edge
C16_Witness ==
    /\ igOut.applied
    /\ \E i \in 1..Len(igIn.agents) :
          /\ igIn.agents[i].x + igOut.displacements[i].x > Px(ArenaWidth)
          /\ igOut.newAgents[i].x = Px(ArenaWidth)

----------------------------------------------------------------------------
(* Concurrent calls of getAgentDecision for one agent *)

\* the oracle call c returns with a decision in this step
Succeeds(c) ==
    /\ calls[c].pc = "oracle"
    /\ calls'[c].pc = "done"
    /\ ev'.type = "success"

\* C29: once an oracle call for an agent has started at time t and later succeeds,
\* no second oracle call for that agent is started before t + 5000 ms: when a call
\* succeeds, no other call for the same agent that started within the 5000 ms after
\* it is awaiting the oracle.
C29_OneOracleCallPerWindow ==
    [][\A c \in 1..MaxCalls :
          Succeeds(c) =>
              \A o \in (1..MaxCalls) \ {c} :
                  ~ /\ calls[o].pc = "oracle"
                    /\ calls[o].id = calls[c].id
                    /\ calls[o].now >= calls[c].now
                    /\ calls[o].now < calls[c].now + CacheTTL
    ]_vars

\* C30: the timestamp of an agent's cache entry never decreases.
C30_CacheTimestampMonotonic ==
    [][\A id \in DOMAIN decisionCache :
          /\ id \in DOMAIN decisionCache'
          /\ decisionCache'[id].timestamp >= decisionCache[id].timestamp
    ]_vars

----------------------------------------------------------------------------
(* The obstacle rule of the fallback (SpecFallback) *)

\* the entries of nearbyObstacles with the minimum distance
nearestObstacles(context) ==
    LET obstacles == context.sensors.nearbyObstacles
    IN  {i \in 1..Len(obstacles) :
            \A j \in 1..Len(obstacles) : obstacles[i].distance <= obstacles[j].distance}

\* C28: whenever no boundary distance is below 50 and some entry of nearbyObstacles
\* has distance < 50, the fallback is avoid with priority 8 and its target is 30 units
\* away from the obstacle of minimum distance, whatever the order of the entries.
C28_AvoidsNearestObstacle ==
    (fbOut.action # "none" /\ ~nearBoundary(fbCtx) /\ nearestObstacleNear(fbCtx)) =>
        /\ fbOut.action = "avoid"
        /\ fbOut.priority = 8
        /\ \E i \in nearestObstacles(fbCtx) :
               LET nearest == fbCtx.sensors.nearbyObstacles[i]
               IN  fbOut.target =
                       [x |-> fbCtx.position.x + CosDeg(nearest.direction + 180) * AvoidStep,
                        y |-> fbCtx.position.y + SinDeg(nearest.direction + 180) * AvoidStep]

----------------------------------------------------------------------------
(* The sampling gate and the configured interval (SpecTick) *)

\* C26: a sampling tick triggers once decisionInterval ms have elapsed since the
\* previous one: a tick of a loop whose config has the AI on, run decisionInterval ms
\* or more after the last sampling tick, is not a flocking-only tick.
C26_GateFollowsDecisionInterval ==
    [][\A cl \in loops :
          (cl.config.aiEnabled /\ now - lastDecisionTime >= cl.config.decisionInterval)
              => ~FlockTick(cl)
    ]_vars

----------------------------------------------------------------------------
(* The domains of the config values (SpecConfig) *)

\* the declared domains: the weights in 0..100, speed and the ranges not negative
InDomain(cfg) ==
    /\ \A f \in {"cohesion", "boundaryForce", "obstacleAvoidance", "leaderInfluence"} :
           cfg[f] \in 0..WeightMax
    /\ \A f \in {"speed", "separation", "sensorRange", "communicationRange"} :
           cfg[f] >= 0

\* C21: every config value that reaches the force model lies in its declared
\* domain: the config a tick integrates with has each weight in 0..100 and no
\* negative speed or range.
C21_ConfigInDomain ==
    [][\A cl \in loops : FlockTick(cl) => InDomain(cl.config)]_vars

----------------------------------------------------------------------------
(* The force model on crowds (SpecForce) and at the edges (SpecIntegrate) *)

\* the values of a weight the properties are stated for: the ends of the slider,
\* the smallest value above 0 and the column's default
LeaderWeights == {0, 1, 70, WeightMax}

\* a leader among the neighbors within communicationRange
HasLeaderNearby(agent, list, cfg) ==
    \E k \in 1..Len(list) :
        /\ list[k].role = "leader"
        /\ closerThan(agent, list[k], Px(cfg.communicationRange))
        /\ (list[k].x # agent.x \/ list[k].y # agent.y)

\* C22: the leader-influence contribution is zero for every agent with role leader,
\* and for every follower with no leader among its neighbors within
\* communicationRange, for every list of neighbors and every leaderInfluence: the
\* term is (0, 0), and the force of the tick is the one a leaderInfluence of 0 gives.
C22_LeaderInfluenceZero ==
    igOut.applied =>
        \A i \in 1..Len(igIn.agents) :
            LET agent == igIn.agents[i]
            IN  (agent.role = "leader" \/ ~HasLeaderNearby(agent, igIn.agents, igIn.config)) =>
                    /\ \A w \in LeaderWeights :
                           LET cfg == [igIn.config EXCEPT !.leaderInfluence = w]
                           IN  leaderInfluenceOf(agent,
                                   nearbyNeighborsOf(agent, igIn.agents, cfg), cfg) = Zero
                    /\ igOut.forces[i] =
                           calculateFlockingBehavior(agent, igIn.agents,
                               [igIn.config EXCEPT !.leaderInfluence = 0], igIn.features)

\* C22 witness: a tick with a leader that has another leader in range and gets
\* the force a leaderInfluence of 0 gives, and with a follower in range of a leader
\* whose leader-influence term is not zero
C22_Witness ==
    /\ igOut.applied
    /\ \E i \in 1..Len(igIn.agents) :
          /\ igIn.agents[i].role = "leader"
          /\ HasLeaderNearby(igIn.agents[i], igIn.agents, igIn.config)
          /\ igOut.forces[i] # Zero
    /\ \E i \in 1..Len(igIn.agents) :
          /\ igIn.agents[i].role = "follower"
          /\ leaderInfluenceOf(igIn.agents[i],
                 nearbyNeighborsOf(igIn.agents[i], igIn.agents, igIn.config),
                 igIn.config) # Zero

\* the values of boundaryForce the property is stated for: those of the slider, and
\* one below and one above it, which POST /api/config stores as well
BoundaryWeights == {-5, 0, 1, 50, WeightMax, 500}

ElsewhereOf(agent, list) ==
    SelectSeq(list, LAMBDA n : n.x # agent.x \/ n.y # agent.y)

\* C24: where two or more agents share a position, under any separation value, 0
\* included, the force is a finite vector and the coincident agents contribute
\* nothing: the neighbors the terms are computed from, the sum of the terms and the
\* force are those of the list without the agents at the agent's position.
C24_CoincidentContributeNothing ==
    igOut.applied =>
        \A i \in 1..Len(igIn.agents) :
            LET agent == igIn.agents[i]
                elsewhere == ElsewhereOf(agent, igIn.agents)
            IN  /\ nearbyNeighborsOf(agent, igIn.agents, igIn.config)
                       = nearbyNeighborsOf(agent, elsewhere, igIn.config)
                /\ totalForce(agent, igIn.agents, igIn.config, igIn.features)
                       = totalForce(agent, elsewhere, igIn.config, igIn.features)
                /\ igOut.forces[i]
                       = calculateFlockingBehavior(agent, elsewhere, igIn.config, igIn.features)
                /\ igOut.forces[i].x \in -Unit..Unit
                /\ igOut.forces[i].y \in -Unit..Unit

\* C24 witness: under a separation of 0, two agents at one position and a third
\* agent in their communication range were integrated
C24_Witness ==
    /\ igOut.applied
    /\ igIn.config.separation = 0
    /\ \E i, j, k \in 1..Len(igIn.agents) :
          /\ i # j
          /\ igIn.agents[i].x = igIn.agents[j].x
          /\ igIn.agents[i].y = igIn.agents[j].y
          /\ igIn.agents[k].x # igIn.agents[i].x
          /\ igOut.forces[i] # Zero

\* the square of a vector's length
LengthSquared(v) == v.x * v.x + v.y * v.y

\* C25: averaging never amplifies: the blended displacement of an agent whose
\* move_towards target is its own position is half the pure flocking displacement
\* speed * forceVector, so not longer than it, and the blended displacement for any
\* target is not longer than speed.
C25_AveragingNeverAmplifies ==
    (igOut.applied /\ igIn.blends) =>
        \A i \in 1..Len(igIn.agents) :
            LET agent == igIn.agents[i]
                blended == igOut.displacements[i]
                pure == [x |-> igOut.forces[i].x * igIn.config.speed,
                         y |-> igOut.forces[i].y * igIn.config.speed]
            IN  hasActionableTarget(agent) =>
                    /\ LengthSquared(blended)
                           <= (igIn.config.speed * Unit) * (igIn.config.speed * Unit)
                    /\ (/\ Px(agent.lastDecision.target.x) = agent.x
                         /\ Px(agent.lastDecision.target.y) = agent.y) =>
                           /\ blended = [x |-> Trunc(pure.x, 2), y |-> Trunc(pure.y, 2)]
                           /\ LengthSquared(blended) <= LengthSquared(pure)

\* C25 witness: an agent with a force on it and a move_towards target at its own
\* position was integrated in the blending branch
C25_Witness ==
    /\ igOut.applied
    /\ igIn.blends
    /\ hasActionableTarget(igIn.agents[1])
    /\ Px(igIn.agents[1].lastDecision.target.x) = igIn.agents[1].x
    /\ Px(igIn.agents[1].lastDecision.target.y) = igIn.agents[1].y
    /\ igOut.forces[1] # Zero
    /\ igOut.displacements[1] # Zero

----------------------------------------------------------------------------
(* The sensors of a decision request (SpecTick) *)

\* C27: the sensors sent in an eligible agent's decision request are the snapshot
\* built in this tick from the current world state, with boundaryDistance the
\* distances from the agent's position to the four edges, not the sensors stored on
\* the agent before the tick.
C27_RequestCarriesFreshSensors ==
    ev.type = "sample" =>
        \A r \in 1..Len(ev.requests) :
            LET agent == ev.agents[ev.requests[r]]
            IN  /\ ev.bodies[r].sensors = ev.agentsWithSensors[r].sensors
                /\ ev.bodies[r].sensors.boundaryDistance =
                       [top |-> agent.y, right |-> Px(ArenaWidth) - agent.x,
                        bottom |-> Px(ArenaHeight) - agent.y, left |-> agent.x]

----------------------------------------------------------------------------
(* The cache entries of the other agents (Spec) *)

\* C31: a getAgentDecision call for an agent, whatever its outcome, leaves the cache
\* entries of every other agent id unchanged, and no step removes an entry: an id
\* that has an entry has one after every step, and the entry changes only in a step
\* of a call for that id.
C31_OtherEntriesUnchanged ==
    [][\A id \in DOMAIN decisionCache :
          /\ id \in DOMAIN decisionCache'
          /\ (~Has(ev', "id") \/ ev'.id # id) => decisionCache'[id] = decisionCache[id]
    ]_vars

\* C31 witness: a call for one agent stored its decision while another agent had an
\* entry
C31_Witness ==
    /\ ev.type = "success"
    /\ \E other \in DOMAIN decisionCache : other # ev.id

----------------------------------------------------------------------------
(* The snapshot a sampling tick commits from (SpecTick) *)

\* C32: no committed progress is lost: a sampling tick that awaited decisions
\* commits positions computed from the most recently committed world state, so when
\* it commits, the agents it took at its start are the committed ones.
C32_CommitFromLatestState ==
    [][\A k \in 1..MaxTicks :
          (ticks[k].pc = "await" /\ ticks'[k].pc = "idle") => ticks[k].agents = agents
    ]_vars

----------------------------------------------------------------------------
(* The animate loops that call updatePositions (SpecTick) *)

\* C33: at most one tick loop drives the simulation at any time: once the canvas
\* effect has re-run, the loop started before no longer calls updatePositions, so the
\* loop that starts a tick is the only one running.
C33_OneTickLoop ==
    [][\A cl \in loops :
          (FlockTick(cl) \/ \E picked \in SUBSET (1..NumAgents) : SampleTick(cl, picked))
              => loops = {cl}
    ]_vars

----------------------------------------------------------------------------
(* The config row under concurrent calls (SpecStorage) *)

\* C34: the swarm config is a singleton under concurrency: after any interleaving
\* of getConfig and updateConfig calls, at most one config row exists, and what
\* getConfig returns has the values of the updateConfig that completed last.
C34_ConfigSingleton ==
    /\ Len(configRows) <= 1
    /\ (ev.type = "getConfig" /\ Has(ev, "result") /\ lastUpdate # NoUpdate) =>
           \A f \in DOMAIN lastUpdate : ev.result[f] = lastUpdate[f]

----------------------------------------------------------------------------
(* The stored features and the rejected requests (SpecRoutes) *)

\* C38: once a feature is placed, no operation changes its type, position, radius,
\* effect, strength, resource type or value, and its collected flag never goes
\* from true back to false: every row stays in the table, the same but for a
\* collected flag that may go from false to true.
C38_FeaturesImmutable ==
    [][\A r \in 1..Len(featureRows) :
          /\ r <= Len(featureRows')
          /\ Without(featureRows'[r], "collected") = Without(featureRows[r], "collected")
          /\ featureRows[r].collected => featureRows'[r].collected
    ]_vars

\* C38 witness: a feature was placed while the table held a collected one
C38_Witness ==
    /\ ev.type = "postEnvironment"
    /\ ev.status = 200
    /\ \E r \in 1..(Len(featureRows) - 1) : featureRows[r].collected

----------------------------------------------------------------------------
(* The reuse flag of a recorded decision (SpecTick) *)

\* the flag of a decision as the decision service returned it
servedFromCache(decision) == Has(decision, "reused") /\ decision.reused

\* C35: the reused flag recorded on an agent's lastDecision after a sampling tick
\* equals the flag of the decision the decision service returned: true when it was
\* served from the cache, false when it was freshly obtained.
C35_ReusedFlagKept ==
    [][(ev'.type = "commit" /\ ticks' # ticks) =>
          \A i \in 1..Len(agents') :
              ev'.outcomes[i].kind = "ok" =>
                  agents'[i].lastDecision.reused
                      = servedFromCache(ev'.outcomes[i].decision)
    ]_vars

----------------------------------------------------------------------------
(* The leader a follower is drawn to (SpecForce) *)

\* the leaders among the neighbors within communicationRange, in list order
leadersNearby(agent, list, cfg) ==
    SelectSeq(nearbyNeighborsOf(agent, list, cfg), LAMBDA n : n.role = "leader")

\* C36: for every follower with one or more leaders among its neighbors within
\* communicationRange, leader influence points to a leader at minimum distance, and
\* among several leaders at that distance to the one that comes first in the list:
\* the term is the offset to that leader scaled by leaderInfluence / 100.
C36_NearestLeaderFirstWins ==
    igOut.applied =>
        \A i \in 1..Len(igIn.agents) :
            LET agent == igIn.agents[i]
                leaders == leadersNearby(agent, igIn.agents, igIn.config)
            IN  (agent.role = "follower" /\ leaders # <<>>) =>
                    \E k \in 1..Len(leaders) :
                        /\ \A o \in 1..Len(leaders) :
                               distanceSquared(agent, leaders[k])
                                   <= distanceSquared(agent, leaders[o])
                        /\ \A o \in 1..(k - 1) :
                               distanceSquared(agent, leaders[k])
                                   < distanceSquared(agent, leaders[o])
                        /\ leaderInfluenceOf(agent,
                               nearbyNeighborsOf(agent, igIn.agents, igIn.config),
                               igIn.config) =
                              [x |-> Trunc((leaders[k].x - agent.x)
                                              * igIn.config.leaderInfluence, 100),
                               y |-> Trunc((leaders[k].y - agent.y)
                                              * igIn.config.leaderInfluence, 100)]

\* C36 witness: a follower with two leaders at the same distance and at different
\* positions was integrated
C36_Witness ==
    /\ igOut.applied
    /\ igIn.agents[1].role = "follower"
    /\ \E a, b \in 1..Len(leadersNearby(igIn.agents[1], igIn.agents, igIn.config)) :
          LET leaders == leadersNearby(igIn.agents[1], igIn.agents, igIn.config)
          IN  /\ a < b
              /\ distanceSquared(igIn.agents[1], leaders[a])
                     = distanceSquared(igIn.agents[1], leaders[b])
              /\ leaders[a].x # leaders[b].x

----------------------------------------------------------------------------
(* The memory in the prompt (SpecPrompt) *)

\* how often an interaction is in a list
CountIn(list, item) == Cardinality({k \in 1..Len(list) : list[k] = item})

\* C37: the memory handed to the oracle holds at most 5 interactions, they are the 5
\* with the newest timestamps of the log, ordered newest first, for every log
\* length and every input order: each one is of the log, none is older than one
\* that was left out, and none comes before a newer one.
C37_FiveNewestFirst ==
    bpOut.built =>
        LET recent == bpOut.recentInteractions
        IN  /\ Len(recent) = MinOf(MemoryLimit, Len(bpIn))
            /\ \A k \in 1..Len(recent) : CountIn(recent, recent[k]) <= CountIn(bpIn, recent[k])
            /\ \A k \in 1..(Len(recent) - 1) :
                   DateGetTime(recent[k].timestamp) >= DateGetTime(recent[k + 1].timestamp)
            /\ \A k \in 1..Len(bpIn) :
                   CountIn(recent, bpIn[k]) < CountIn(bpIn, bpIn[k]) =>
                       \A r \in 1..Len(recent) :
                           DateGetTime(recent[r].timestamp) >= DateGetTime(bpIn[k].timestamp)

\* C37 witness: a log of more than 5 interactions whose newest one came last was
\* cut to the 5 newest
C37_Witness ==
    /\ bpOut.built
    /\ Len(bpIn) > MemoryLimit
    /\ \A k \in 1..(Len(bpIn) - 1) :
          DateGetTime(bpIn[k].timestamp) < DateGetTime(bpIn[Len(bpIn)].timestamp)
    /\ bpOut.recentInteractions[1] = bpIn[Len(bpIn)]

====
